---- MODULE Spec2Model ----
(***************************************************************************)
(* Model of crimson/osd/shard_services.cc: the pg_temp bookkeeping of      *)
(* OSDSingletonState and the PG creation path of ShardServices.            *)
(***************************************************************************)
EXTENDS Integers, Sequences, FiniteSets, TLC

(***************************************************************************)
(* Values                                                                  *)
(***************************************************************************)
\* pg_t keys of the pg_temp maps
PgIds == {"1.0", "1.1"}
\* vector<int> acting sets a caller may want
Actings == {<<0>>, <<1, 0>>}
\* a null MURef<MOSDPGTemp>
NoMsg == [null |-> TRUE]
\* an empty std::map
EmptyMap == [x \in {} |-> x]

\* the spg_t identity the callers ask for: PGMap keeps its state per
\* identity, so the calls that race are the calls for one identity
SpgIds == {"1.0s0"}
\* a null Ref<PG>
NullPG == 0
\* a null std::unique_ptr<PGCreateInfo>
NoInfo == [null |-> TRUE]
\* number of get_or_create_pg / wait_for_pg calls the environment makes
MaxCalls == 3
\* highest osdmap epoch the node receives
MaxEpoch == 2
\* number of send_alive calls the environment makes
MaxAliveCalls == 3
\* highest epoch of a map message
MaxMapEpoch == 3
\* number of epochs a map message spans at most
MaxBatch == 2
\* osd_target_transaction_size, scaled to the few epochs of the model
TargetTxnSize == 3
Calls == 1..MaxCalls
\* hobject_t positions of a scrubbed PG: 0..HobjMax, HobjMax standing for
\* hobject_t::get_max()
HobjMax == 3

VARIABLES
  pg_temp_wanted,   \* OSDSingletonState::pg_temp_wanted : pg_t -> pg_temp_t
  pg_temp_pending,  \* OSDSingletonState::pg_temp_pending: pg_t -> pg_temp_t
  osdmap_epoch,     \* get_map()->get_epoch(): epoch of the current map
  last,             \* the last pg_temp operation executed, its arguments, the
                    \* maps before it and what it handed to monc.send_message
  osdmaps,          \* epoch -> up/acting PGs of this osd in get_map(epoch)
  osdmap_pool,      \* the pool of the PGs in get_map()
  pgs,              \* PGMap::pgs: spg_t -> Ref<PG>
  pgs_creating,     \* PGMap::pgs_creating: spg_t -> {creating, promise}
  pg_objs,          \* the PG objects constructed so far (Ref<PG> = index)
  calls,            \* the calls made: arguments, returned future, and the
                    \* position of the handle_pg_create_info a call started
  store_colls,      \* create_new_collection calls received by the store
  canceled,         \* PGMap::pg_creation_canceled invocations per spg_t
  up_thru_wanted,   \* OSDSingletonState::up_thru_wanted
  osd_exists,       \* osdmap->exists(whoami)
  osd_up_thru,      \* osdmap->get_up_thru(whoami)
  alive_log,        \* the send_alive calls made: argument, the state each
                    \* found and left, and what it handed to monc
  sb_maps,          \* superblock.maps: the epochs the superblock retains
  sb_trim_lb,       \* superblock.cluster_osdmap_trim_lower_bound
  osdmaps_keys,     \* the epochs resident in the osdmaps cache
  map_bl_cache,     \* the epochs resident in map_bl_cache
  meta_maps,        \* the epochs whose full map meta_coll stores
  pg_map_epoch,     \* the epoch of the map each live PG holds (0: no PG)
  maps_last,        \* the last store_maps / trim_maps / get_local_map call:
                    \* its arguments, what it found and what it did
  map_bls,          \* what meta_coll and the caches of encodings hold for
                    \* each epoch: in which forms, and of what length
  inc_msg,          \* the last build_incremental_map_msg call: its
                    \* arguments and the MOSDMap it built
  dispatch_last,    \* the last dispatch_context call: its arguments, what
                    \* it handed to the messenger and to the store, and
                    \* how its future resolved
  send_last,        \* the last send_to_osd call: its arguments, what the
                    \* map told of the peer, and what it did
  inc_map_bl_cache, \* the epochs resident in inc_map_bl_cache
  meta_inc_maps,    \* the epochs whose incremental map meta_coll stores
  adv_ops,          \* the PGAdvanceMap operations broadcast_map_to_pgs
                    \* started: their PG, target epoch and state
  bcasts,           \* the broadcast_map_to_pgs calls made: the epoch, the
                    \* table each found, and its future
  scrub             \* the scrub state machine: its state, the contexts of
                    \* Scrubbing, ChunkState and ScanRange, and the calls
                    \* it made on the ScrubContext

pgtemp_vars == <<pg_temp_wanted, pg_temp_pending, last>>

map_vars == <<osdmap_epoch, osdmaps, osdmap_pool>>

pg_vars == <<osdmaps, osdmap_pool, pgs, pgs_creating, pg_objs, calls,
             store_colls, canceled>>

alive_vars == <<up_thru_wanted, osd_exists, osd_up_thru, alive_log>>

sb_vars == <<sb_maps, sb_trim_lb, osdmaps_keys, map_bl_cache, meta_maps,
            pg_map_epoch, maps_last>>

send_vars == <<send_last>>

cache_vars == <<inc_map_bl_cache, meta_inc_maps>>

ext_vars == <<adv_ops, bcasts, scrub>>

aux_vars == <<send_vars, cache_vars, ext_vars>>

msg_vars == <<map_bls, inc_msg, dispatch_last, aux_vars>>

vars == <<pg_temp_wanted, pg_temp_pending, osdmap_epoch, last,
          osdmaps, osdmap_pool, pgs, pgs_creating, pg_objs, calls,
          store_colls, canceled, alive_vars, sb_vars, msg_vars>>

(***************************************************************************)
(* std::map helpers                                                        *)
(***************************************************************************)
\* m[k] = v
MapPut(m, k, v) == [x \in (DOMAIN m) \cup {k} |-> IF x = k THEN v ELSE m[x]]

\* m.erase(k)
MapErase(m, k) == [x \in (DOMAIN m) \ {k} |-> m[x]]

\* a merge that moves nothing (the arguments of merge swapped)
MapMerge_swapped(dst, src) == dst

\* dst.merge(src): the value of dst afterwards.  A key already in dst keeps
\* dst's value; the node stays in src.
MapMerge(dst, src) ==
  [x \in (DOMAIN dst) \cup (DOMAIN src) |->
     IF x \in DOMAIN dst THEN dst[x] ELSE src[x]]

\* pg_temp_t
PgTemp(acting, forced) == [acting |-> acting, forced |-> forced]

(***************************************************************************)
(* OSDSingletonState::queue_want_pg_temp                                   *)
(***************************************************************************)
\* the guard with the comparison against pg_temp_pending dropped
WantChanged_always(pending, pgid, want, forced) == TRUE

\* the guard without its forced disjunct
WantChanged_not_forced(pending, pgid, want, forced) ==
  \/ pgid \notin DOMAIN pending
  \/ pending[pgid].acting # want

\* the guard of the assignment
WantChanged(pending, pgid, want, forced) ==
  \/ pgid \notin DOMAIN pending
  \/ pending[pgid].acting # want
  \/ forced

\* the assignment done with emplace, which keeps an existing wanted entry
QueueWanted_emplace(wanted, pending, pgid, want, forced) ==
  IF WantChanged(pending, pgid, want, forced) /\ pgid \notin DOMAIN wanted
  THEN MapPut(wanted, pgid, PgTemp(want, forced))
  ELSE wanted

\* pg_temp_wanted after the call
QueueWanted(wanted, pending, pgid, want, forced) ==
  IF WantChanged(pending, pgid, want, forced)
  THEN MapPut(wanted, pgid, PgTemp(want, forced))
  ELSE wanted

queue_want_pg_temp(pgid, want, forced) ==
  /\ pg_temp_wanted' =
       QueueWanted(pg_temp_wanted, pg_temp_pending, pgid, want, forced)
  /\ last' = [op |-> "queue_want_pg_temp", pgid |-> pgid, want |-> want,
              forced |-> forced, wanted |-> pg_temp_wanted,
              pending |-> pg_temp_pending, ms |-> [f \in BOOLEAN |-> NoMsg]]
  /\ UNCHANGED <<pg_temp_pending, osdmap_epoch, pg_vars, alive_vars, sb_vars,
                 msg_vars>>

(***************************************************************************)
(* OSDSingletonState::remove_want_pg_temp                                  *)
(***************************************************************************)
remove_want_pg_temp(pgid) ==
  /\ pg_temp_wanted' = MapErase(pg_temp_wanted, pgid)
  /\ pg_temp_pending' = MapErase(pg_temp_pending, pgid)
  /\ last' = [op |-> "remove_want_pg_temp", pgid |-> pgid, want |-> <<>>,
              forced |-> FALSE, wanted |-> pg_temp_wanted,
              pending |-> pg_temp_pending, ms |-> [f \in BOOLEAN |-> NoMsg]]
  /\ UNCHANGED <<osdmap_epoch, pg_vars, alive_vars, sb_vars, msg_vars>>

(***************************************************************************)
(* OSDSingletonState::requeue_pg_temp                                      *)
(***************************************************************************)
\* the merge replaced by an assignment, which forgets what was wanted
RequeueWanted_assign(wanted, pending) == pending

\* pg_temp_wanted after pg_temp_wanted.merge(pg_temp_pending)
RequeueWanted(wanted, pending) == MapMerge(wanted, pending)

requeue_pg_temp ==
  /\ pg_temp_wanted' = RequeueWanted(pg_temp_wanted, pg_temp_pending)
  /\ pg_temp_pending' = EmptyMap
  /\ last' = [op |-> "requeue_pg_temp", pgid |-> "", want |-> <<>>,
              forced |-> FALSE, wanted |-> pg_temp_wanted,
              pending |-> pg_temp_pending, ms |-> [f \in BOOLEAN |-> NoMsg]]
  /\ UNCHANGED <<osdmap_epoch, pg_vars, alive_vars, sb_vars, msg_vars>>

(***************************************************************************)
(* OSDSingletonState::send_pg_temp                                         *)
(***************************************************************************)
\* every entry put into ms[0], whatever its flag
BuildPgTempMsgs_single(wanted, epoch) ==
  [f \in BOOLEAN |->
     IF f = FALSE /\ wanted # EmptyMap
     THEN [map_epoch |-> epoch,
           forced    |-> f,
           pg_temp   |-> [p \in DOMAIN wanted |-> wanted[p].acting]]
     ELSE NoMsg]

\* ms[2] after the loop over pg_temp_wanted: ms[forced] is created by the
\* first entry with that flag and collects every entry with that flag.
BuildPgTempMsgs(wanted, epoch) ==
  [f \in BOOLEAN |->
     IF \E p \in DOMAIN wanted : wanted[p].forced = f
     THEN [map_epoch |-> epoch,
           forced    |-> f,
           pg_temp   |-> [p \in {q \in DOMAIN wanted : wanted[q].forced = f}
                            |-> wanted[p].acting]]
     ELSE NoMsg]

send_pg_temp ==
  /\ last' = [op |-> "send_pg_temp", pgid |-> "", want |-> <<>>,
              forced |-> FALSE, wanted |-> pg_temp_wanted,
              pending |-> pg_temp_pending,
              ms |-> IF pg_temp_wanted = EmptyMap
                     THEN [f \in BOOLEAN |-> NoMsg]
                     ELSE BuildPgTempMsgs(pg_temp_wanted, osdmap_epoch)]
  /\ IF pg_temp_wanted = EmptyMap
     THEN UNCHANGED <<pg_temp_wanted, pg_temp_pending>>
     ELSE /\ pg_temp_pending' = MapMerge(pg_temp_pending, pg_temp_wanted)
          /\ pg_temp_wanted' = EmptyMap
  /\ UNCHANGED <<osdmap_epoch, pg_vars, alive_vars, sb_vars, msg_vars>>

(***************************************************************************)
(* OSDMap: what handle_pg_create_info reads of a map                       *)
(***************************************************************************)
\* get_pg_pool(pool) of the one pool in the current map: absent, present
\* without the crimson flag, crimson without FLAG_CREATING, crimson with
\* FLAG_CREATING.  The pool is read from get_map() only, so the maps of
\* older epochs keep their up/acting sets alone.
PoolStates == {"dne", "plain", "crimson", "crimson_creating"}

\* the maps a node can receive: up holds the PGs for which
\* is_up_acting_osd_shard(pgid, whoami) is true; a map without the pool maps
\* no PG of it to any osd
OsdMapValues ==
  {m \in [pool : PoolStates, up : SUBSET SpgIds] : m.pool = "dne" => m.up = {}}

\* the OSDMap of epoch 0 (osdmaps[0] of the constructor, load_map(0))
EmptyOsdMap == [pool |-> "dne", up |-> {}]

\* get_map(): the current map; get_map(e): the map of epoch e
CurrentMap == [pool |-> osdmap_pool, up |-> osdmaps[osdmap_epoch]]
MapOfEpoch(e) == [up |-> osdmaps[e]]

is_up_acting_osd_shard(map, pgid) == pgid \in map.up
have_pg_pool(map) == map.pool # "dne"
is_crimson(map) == map.pool \in {"crimson", "crimson_creating"}
has_flag_creating(map) == map.pool = "crimson_creating"

(***************************************************************************)
(* PGMap (pg_map.h): the placement table and the creation registry         *)
(***************************************************************************)
\* PGMap::get_pg
get_pg(pgid) == IF pgid \in DOMAIN pgs THEN pgs[pgid] ELSE NullPG

\* PGMap::wait_for_pg: a ready future holding the PG when it is present,
\* otherwise a future on the (possibly new) creation entry of pgid; existed
\* tells whether a creation is under way
wait_for_pg(c, pgid) ==
  IF pgid \in DOMAIN pgs
  THEN [fut |-> "ready", val |-> pgs[pgid], existed |-> TRUE,
        creating |-> pgs_creating]
  ELSE LET st == IF pgid \in DOMAIN pgs_creating
                 THEN pgs_creating[pgid]
                 ELSE [creating |-> FALSE, waiters |-> {}]
       IN [fut |-> "pending", val |-> NullPG, existed |-> st.creating,
           creating |-> MapPut(pgs_creating, pgid,
                               [st EXCEPT !.waiters = @ \cup {c}])]

\* PGMap::set_creating
set_creating(creating, pgid) == [creating EXCEPT ![pgid].creating = TRUE]

\* the futures of the waiters of pgid resolved with val
ResolveWaiters(pgid, val) ==
  [d \in Calls |->
     IF pgid \in DOMAIN pgs_creating /\ d \in pgs_creating[pgid].waiters
     THEN [calls[d] EXCEPT !.fut = "ready", !.val = val]
     ELSE calls[d]]

(***************************************************************************)
(* ShardServices::get_or_create_pg, ShardServices::wait_for_pg             *)
(***************************************************************************)
IdleCall ==
  [kind |-> "idle", pgid |-> "", with_info |-> FALSE, info |-> NoInfo,
   fut |-> "none",
   val |-> NullPG, hit |-> FALSE, hpc |-> "none", why |-> "", pg |-> NullPG,
   adv_to |-> 0]

\* calls are numbered in the order they are made
NextCall(c) ==
  /\ calls[c].kind = "idle"
  /\ c > 1 => calls[c - 1].kind # "idle"

\* get_or_create_pg with the test of existed dropped
GetOrCreate_always_start(c, pgid, info) ==
  IF info # NoInfo
  THEN LET w == wait_for_pg(c, pgid) IN
       [fut |-> w.fut, val |-> w.val,
        creating |-> IF pgid \in DOMAIN w.creating
                     THEN set_creating(w.creating, pgid) ELSE w.creating,
        start |-> pgid \notin DOMAIN pgs]
  ELSE [fut |-> "ready", val |-> get_pg(pgid),
        creating |-> pgs_creating, start |-> FALSE]

\* get_or_create_pg with the test of info dropped
GetOrCreate_ignore_info(c, pgid, info) ==
  LET w == wait_for_pg(c, pgid) IN
  [fut |-> w.fut, val |-> w.val,
   creating |-> IF ~w.existed /\ info # NoInfo
                THEN set_creating(w.creating, pgid) ELSE w.creating,
   start |-> ~w.existed /\ info # NoInfo]

\* what get_or_create_pg returns and does to pgs_creating; start tells
\* whether it calls handle_pg_create_info
GetOrCreate(c, pgid, info) ==
  IF info # NoInfo
  THEN LET w == wait_for_pg(c, pgid) IN
       [fut |-> w.fut, val |-> w.val,
        creating |-> IF ~w.existed
                     THEN set_creating(w.creating, pgid) ELSE w.creating,
        start |-> ~w.existed]
  ELSE [fut |-> "ready", val |-> get_pg(pgid),
        creating |-> pgs_creating, start |-> FALSE]

get_or_create_pg(c, pgid, info) ==
  /\ NextCall(c)
  /\ LET r == GetOrCreate(c, pgid, info) IN
       /\ pgs_creating' = r.creating
       /\ calls' = [calls EXCEPT ![c] =
            [kind |-> "get_or_create_pg", pgid |-> pgid,
             with_info |-> info # NoInfo,
             info |-> IF r.start THEN info ELSE NoInfo,
             fut |-> r.fut, val |-> r.val, hit |-> pgid \in DOMAIN pgs,
             hpc |-> IF r.start THEN "get_map" ELSE "none", why |-> "",
             pg |-> NullPG, adv_to |-> 0]]
  /\ UNCHANGED <<map_vars, pgs, pg_objs, store_colls, canceled,
                 pgtemp_vars, alive_vars, sb_vars, msg_vars>>

ShardServices_wait_for_pg(c, pgid) ==
  /\ NextCall(c)
  /\ LET w == wait_for_pg(c, pgid) IN
       /\ pgs_creating' = w.creating
       /\ calls' = [calls EXCEPT ![c] =
            [kind |-> "wait_for_pg", pgid |-> pgid,
             with_info |-> FALSE, info |-> NoInfo,
             fut |-> w.fut, val |-> w.val, hit |-> pgid \in DOMAIN pgs,
             hpc |-> "none", why |-> "", pg |-> NullPG, adv_to |-> 0]]
  /\ UNCHANGED <<map_vars, pgs, pg_objs, store_colls, canceled,
                 pgtemp_vars, alive_vars, sb_vars, msg_vars>>

(***************************************************************************)
(* ShardServices::handle_pg_create_info                                    *)
(***************************************************************************)
\* the validation with the check of the creation-epoch map left out
Validate_current_only(curmap, startmap, pgid, by_mon) ==
  IF ~is_up_acting_osd_shard(curmap, pgid) THEN "not_up_acting"
  ELSE IF by_mon
       THEN IF ~have_pg_pool(curmap) THEN "pool_dne"
            ELSE IF ~is_crimson(curmap) THEN "not_crimson"
            ELSE IF ~has_flag_creating(curmap) THEN "not_creating"
            ELSE "make_pg"
       ELSE "make_pg"

\* the validation with the pool checks left out
Validate_no_pool_checks(curmap, startmap, pgid, by_mon) ==
  IF \/ ~is_up_acting_osd_shard(curmap, pgid)
     \/ ~is_up_acting_osd_shard(startmap, pgid) THEN "not_up_acting"
  ELSE "make_pg"

\* the continuation of get_map(info->epoch): the branch that cancels the
\* creation, or make_pg
Validate(curmap, startmap, pgid, by_mon) ==
  IF \/ ~is_up_acting_osd_shard(curmap, pgid)
     \/ ~is_up_acting_osd_shard(startmap, pgid) THEN "not_up_acting"
  ELSE IF by_mon
       THEN IF ~have_pg_pool(curmap) THEN "pool_dne"
            ELSE IF ~is_crimson(curmap) THEN "not_crimson"
            ELSE IF ~has_flag_creating(curmap) THEN "not_creating"
            ELSE "make_pg"
       ELSE "make_pg"

\* PGMap::pg_creation_canceled: the entry is erased and its waiters are
\* resolved with no PG
pg_creation_canceled(c, pgid, why) ==
  /\ calls' = [ResolveWaiters(pgid, NullPG) EXCEPT ![c].hpc = "canceled",
                  ![c].why = why, ![c].info = NoInfo]
  /\ pgs_creating' = MapErase(pgs_creating, pgid)
  /\ canceled' = [canceled EXCEPT ![pgid] = @ + 1]

\* get_map(info->epoch) resolved: validation; on success make_pg is called,
\* which asks the store for a new collection at once
HandleGetMapDone(c) ==
  /\ calls[c].hpc = "get_map"
  /\ LET pgid == calls[c].pgid
         v == Validate(CurrentMap, MapOfEpoch(calls[c].info.epoch),
                       pgid, calls[c].info.by_mon)
     IN IF v # "make_pg"
        THEN /\ pg_creation_canceled(c, pgid, v)
             /\ UNCHANGED store_colls
        ELSE /\ calls' = [calls EXCEPT ![c].hpc = "make_pg"]
             /\ store_colls' = [store_colls EXCEPT ![pgid] = @ + 1]
             /\ UNCHANGED <<pgs_creating, canceled>>
  /\ UNCHANGED <<map_vars, pgs, pg_objs, pgtemp_vars, alive_vars, sb_vars,
                 msg_vars>>

\* an asynchronous step of the chain resolved with an exception: the chain
\* has no handle_exception and get_or_create_pg discards its future
ChainFails(c) ==
  /\ calls' = [calls EXCEPT ![c].hpc = "failed", ![c].info = NoInfo]
  /\ UNCHANGED <<map_vars, pgs, pgs_creating, pg_objs, store_colls, canceled,
                 pgtemp_vars, alive_vars, sb_vars, msg_vars>>

\* get_map(info->epoch) fails: the map has to be loaded (load_map(0) loads
\* nothing)
HandleGetMapFail(c) ==
  /\ calls[c].hpc = "get_map"
  /\ calls[c].info.epoch > 0
  /\ ChainFails(c)

\* get_pool_info or create_new_collection fails
HandleMakePgFail(c) ==
  /\ calls[c].hpc = "make_pg"
  /\ ChainFails(c)

\* pg->init fails
HandleInitFail(c) ==
  /\ calls[c].hpc = "init"
  /\ ChainFails(c)

\* the PGAdvanceMap operation fails
HandleAdvanceFail(c) ==
  /\ calls[c].hpc = "advance"
  /\ ChainFails(c)

\* make_pg resolved: new PG{...create_map...}; create_pg_collection and
\* init_pg_ondisk are queued in rctx->transaction and pg->init is called
HandleMakePgDone(c) ==
  /\ calls[c].hpc = "make_pg"
  /\ pg_objs' = Append(pg_objs,
       [pgid |-> calls[c].pgid, epoch |-> calls[c].info.epoch,
        ondisk |-> TRUE, inited |-> FALSE])
  /\ calls' = [calls EXCEPT ![c].hpc = "init", ![c].pg = Len(pg_objs) + 1]
  /\ UNCHANGED <<map_vars, pgs, pgs_creating, store_colls,
                 canceled, pgtemp_vars, alive_vars, sb_vars, msg_vars>>

\* the advance started at the epoch of the creation map
AdvanceTarget_startmap(c) == pg_objs[calls[c].pg].epoch

\* the epoch handed to PGAdvanceMap: get_map()->get_epoch()
AdvanceTarget(c) == osdmap_epoch

\* pg->init resolved: PGAdvanceMap to get_map()->get_epoch() is started
HandleInitDone(c) ==
  /\ calls[c].hpc = "init"
  /\ pg_objs' = [pg_objs EXCEPT ![calls[c].pg].inited = TRUE]
  /\ calls' = [calls EXCEPT ![c].hpc = "advance", ![c].adv_to = AdvanceTarget(c)]
  /\ UNCHANGED <<map_vars, pgs, pgs_creating, store_colls,
                 canceled, pgtemp_vars, alive_vars, sb_vars, msg_vars>>

\* the PGAdvanceMap with do_init completed: the PG is at the epoch it was
\* started with, is registered (PGMap::pg_created) and the waiters get it
HandleAdvanceDone(c) ==
  /\ calls[c].hpc = "advance"
  /\ LET pgid == calls[c].pgid IN
       /\ pg_objs' = [pg_objs EXCEPT ![calls[c].pg].epoch = calls[c].adv_to]
       /\ pgs' = MapPut(pgs, pgid, calls[c].pg)
       /\ calls' = [ResolveWaiters(pgid, calls[c].pg) EXCEPT
                      ![c].hpc = "created", ![c].info = NoInfo]
       /\ pgs_creating' = MapErase(pgs_creating, pgid)
  /\ UNCHANGED <<map_vars, store_colls, canceled, pgtemp_vars, alive_vars, sb_vars,
                 msg_vars>>

\* the node receives the map of the next epoch
NewOsdMap(m) ==
  /\ osdmap_epoch < MaxEpoch
  /\ osdmap_epoch' = osdmap_epoch + 1
  /\ osdmaps' = [e \in 0..(osdmap_epoch + 1) |->
                   IF e = osdmap_epoch + 1 THEN m.up ELSE osdmaps[e]]
  /\ osdmap_pool' = m.pool
  /\ UNCHANGED <<pgs, pgs_creating, pg_objs, calls, store_colls, canceled,
                 pgtemp_vars, alive_vars, sb_vars, msg_vars>>

(***************************************************************************)
(* The PG creation specification                                           *)
(***************************************************************************)
\* PerShardState after construction: no PG, nothing being created
PgTableInit ==
  /\ pgs = EmptyMap
  /\ pgs_creating = EmptyMap
  /\ pg_objs = <<>>
  /\ calls = [c \in Calls |-> IdleCall]
  /\ store_colls = [p \in SpgIds |-> 0]
  /\ canceled = [p \in SpgIds |-> 0]

\* no send_alive call made yet, and a map that does not hold this osd
AliveIdle ==
  /\ up_thru_wanted = 0
  /\ osd_exists = FALSE
  /\ osd_up_thru = 0
  /\ alive_log = <<>>

\* a fresh osd: an empty superblock, nothing stored, and the osdmaps cache
\* holding the epoch 0 map the constructor puts there
MapsIdle ==
  /\ sb_maps = {}
  /\ sb_trim_lb = 0
  /\ osdmaps_keys = {0}
  /\ map_bl_cache = {}
  /\ meta_maps = {}
  /\ pg_map_epoch = [p \in SpgIds |-> 0]
  /\ maps_last = [op |-> "init"]

\* nothing stored, and neither build_incremental_map_msg nor
\* dispatch_context called yet
\* no send_to_osd call made yet, and no incremental map stored
ExtIdle ==
  /\ adv_ops = <<>>
  /\ bcasts = <<>>
  /\ scrub = [state |-> "none"]

AuxIdle ==
  /\ ExtIdle
  /\ send_last = [op |-> "init"]
  /\ inc_map_bl_cache = {}
  /\ meta_inc_maps = {}

MsgIdle ==
  /\ AuxIdle
  /\ map_bls = [e \in 1..MaxMapEpoch |-> [form |-> "none", len |-> 1]]
  /\ inc_msg = [op |-> "init"]
  /\ dispatch_last = [op |-> "init"]

PgTempIdle ==
  /\ pg_temp_wanted = EmptyMap
  /\ pg_temp_pending = EmptyMap
  /\ last = [op |-> "init", pgid |-> "", want |-> <<>>, forced |-> FALSE,
             wanted |-> EmptyMap, pending |-> EmptyMap,
             ms |-> [f \in BOOLEAN |-> NoMsg]]

PgInit ==
  /\ PgTableInit
  /\ PgTempIdle
  /\ AliveIdle
  /\ MapsIdle
  /\ MsgIdle
  /\ osdmap_epoch = 0
  /\ osdmaps = [e \in {0} |-> EmptyOsdMap.up]
  /\ osdmap_pool = EmptyOsdMap.pool

PgNext ==
  \/ \E c \in Calls, pgid \in SpgIds :
       \E info \in {NoInfo} \cup [epoch : 0..osdmap_epoch, by_mon : BOOLEAN] :
         get_or_create_pg(c, pgid, info)
  \/ \E c \in Calls, pgid \in SpgIds : ShardServices_wait_for_pg(c, pgid)
  \/ \E c \in Calls : HandleGetMapDone(c)
  \/ \E c \in Calls : HandleGetMapFail(c)
  \/ \E c \in Calls : HandleMakePgDone(c)
  \/ \E c \in Calls : HandleMakePgFail(c)
  \/ \E c \in Calls : HandleInitDone(c)
  \/ \E c \in Calls : HandleInitFail(c)
  \/ \E c \in Calls : HandleAdvanceDone(c)
  \/ \E c \in Calls : HandleAdvanceFail(c)
  \/ \E m \in OsdMapValues : NewOsdMap(m)

SpecPG == PgInit /\ [][PgNext]_vars

(***************************************************************************)
(* The pg_temp specification                                               *)
(***************************************************************************)
PgTempInit ==
  /\ PgTempIdle
  /\ PgTableInit
  /\ AliveIdle
  /\ MapsIdle
  /\ MsgIdle
  /\ osdmap_epoch = 1
  /\ osdmaps = [e \in 0..1 |-> EmptyOsdMap.up]
  /\ osdmap_pool = EmptyOsdMap.pool

PgTempNext ==
  \/ \E pgid \in PgIds, want \in Actings, forced \in BOOLEAN :
       queue_want_pg_temp(pgid, want, forced)
  \/ \E pgid \in PgIds : remove_want_pg_temp(pgid)
  \/ requeue_pg_temp
  \/ send_pg_temp

SpecPgTemp == PgTempInit /\ [][PgTempNext]_vars

(***************************************************************************)
(* Properties of the pg_temp bookkeeping                                   *)
(***************************************************************************)
InBoth == (DOMAIN pg_temp_wanted) \cap (DOMAIN pg_temp_pending)

\* C7 (as stated): after any sequence of queue_want_pg_temp, send_pg_temp,
\* requeue_pg_temp and remove_want_pg_temp calls no PG id is a key of both
\* the wanted and the pending map.
C7_Disjoint == InBoth = {}

\* C7 (amended): a PG id is a key of both maps only while its wanted entry
\* differs in acting set from the pending one or is forced; right after
\* send_pg_temp or requeue_pg_temp the two maps are disjoint, and right after
\* remove_want_pg_temp(pgid) that pgid is in neither map.
C7_BothOnlyIfChangedOrForced ==
  /\ \A p \in InBoth :
       \/ pg_temp_wanted[p].acting # pg_temp_pending[p].acting
       \/ pg_temp_wanted[p].forced
  /\ last.op \in {"send_pg_temp", "requeue_pg_temp"} => InBoth = {}
  /\ last.op = "remove_want_pg_temp" =>
       last.pgid \notin (DOMAIN pg_temp_wanted) \cup (DOMAIN pg_temp_pending)

\* C7 witness: a request queued for a PG whose earlier request is pending
C7_Witness ==
  /\ last.op = "queue_want_pg_temp"
  /\ last.pgid \in InBoth
  /\ last.pgid \notin DOMAIN last.wanted

\* C8: a second queue_want_pg_temp with the arguments of the call that just
\* returned changes neither map, a call the guard lets through leaves exactly
\* the entry (want, forced) under pgid, and no other key is touched.
C8_QueueIdempotent ==
  last.op = "queue_want_pg_temp" =>
    /\ QueueWanted(pg_temp_wanted, pg_temp_pending,
                   last.pgid, last.want, last.forced) = pg_temp_wanted
    /\ pg_temp_pending = last.pending
    /\ WantChanged(last.pending, last.pgid, last.want, last.forced) =>
         /\ last.pgid \in DOMAIN pg_temp_wanted
         /\ pg_temp_wanted[last.pgid] = PgTemp(last.want, last.forced)
    /\ \A p \in PgIds \ {last.pgid} :
         /\ (p \in DOMAIN pg_temp_wanted) = (p \in DOMAIN last.wanted)
         /\ p \in DOMAIN pg_temp_wanted => pg_temp_wanted[p] = last.wanted[p]

\* C8 witness: the call repeated an identical request that was still wanted
C8_Witness ==
  /\ last.op = "queue_want_pg_temp"
  /\ last.pgid \in DOMAIN last.wanted
  /\ last.wanted[last.pgid] = PgTemp(last.want, last.forced)
  /\ pg_temp_wanted = last.wanted

\* C9: after send_pg_temp the wanted map is empty and every PG id that was
\* wanted is a key of pending (pending's keys are the old pending and wanted
\* keys); with an empty wanted map the call changes nothing and builds no
\* message.
C9_FlushMovesWanted ==
  last.op = "send_pg_temp" =>
    /\ pg_temp_wanted = EmptyMap
    /\ DOMAIN pg_temp_pending = (DOMAIN last.pending) \cup (DOMAIN last.wanted)
    /\ last.wanted = EmptyMap =>
         /\ pg_temp_pending = last.pending
         /\ \A f \in BOOLEAN : last.ms[f] = NoMsg

\* C9 witness: a flush of a non-empty wanted map over a non-empty pending map
C9_Witness ==
  /\ last.op = "send_pg_temp"
  /\ last.wanted # EmptyMap
  /\ last.pending # EmptyMap
  /\ (DOMAIN last.wanted) \ (DOMAIN last.pending) # {}

\* C10: a flush builds at most two messages, one per forced flag: every
\* wanted entry is in the message of its own flag with its acting set and in
\* no other message, a message exists only for a flag some wanted entry has,
\* and a message carries nothing but wanted entries.
C10_MessagesPartitionedByForced ==
  last.op = "send_pg_temp" =>
    /\ Cardinality({f \in BOOLEAN : last.ms[f] # NoMsg}) <= 2
    /\ \A p \in DOMAIN last.wanted :
         LET f == last.wanted[p].forced IN
           /\ last.ms[f] # NoMsg
           /\ p \in DOMAIN last.ms[f].pg_temp
           /\ last.ms[f].pg_temp[p] = last.wanted[p].acting
           /\ last.ms[~f] # NoMsg => p \notin DOMAIN last.ms[~f].pg_temp
    /\ \A f \in BOOLEAN :
         last.ms[f] # NoMsg =>
           /\ last.ms[f].forced = f
           /\ \E p \in DOMAIN last.wanted : last.wanted[p].forced = f
           /\ DOMAIN last.ms[f].pg_temp \subseteq DOMAIN last.wanted

\* C10 witness: a flush of forced and unforced entries: two messages
C10_Witness ==
  /\ last.op = "send_pg_temp"
  /\ \A f \in BOOLEAN : last.ms[f] # NoMsg

\* C33: queue_want_pg_temp(pgid, want, forced) sets wanted[pgid] to
\* (want, forced) when pending has no entry for pgid, or its acting set
\* differs from want, or forced is true; when pending holds the same
\* acting set and the request is not forced, it leaves the wanted and the
\* pending map as they were.
C33_OverwriteIfChangedOrForced ==
  last.op = "queue_want_pg_temp" =>
    IF \/ last.pgid \notin DOMAIN last.pending
       \/ last.pending[last.pgid].acting # last.want
       \/ last.forced
    THEN /\ last.pgid \in DOMAIN pg_temp_wanted
         /\ pg_temp_wanted[last.pgid].acting = last.want
         /\ pg_temp_wanted[last.pgid].forced = last.forced
         /\ pg_temp_pending = last.pending
    ELSE /\ pg_temp_wanted = last.wanted
         /\ pg_temp_pending = last.pending

\* C33 witness: a forced request for the acting set that is pending
\* already, wanted holding another entry for the PG: overwritten
C33_Witness ==
  /\ last.op = "queue_want_pg_temp"
  /\ last.forced
  /\ last.pgid \in DOMAIN last.pending
  /\ last.pending[last.pgid].acting = last.want
  /\ last.pgid \in DOMAIN last.wanted
  /\ last.wanted[last.pgid] # pg_temp_wanted[last.pgid]

\* C35: after send_pg_temp the pending entry of every PG id that was
\* flushed holds the acting set and the forced flag that went into the
\* message of this flush, also when pending already held an entry with
\* another acting set for that PG id.
C35_PendingHoldsWhatWasSent ==
  (last.op = "send_pg_temp" /\ last.wanted # EmptyMap) =>
    \A p \in DOMAIN last.wanted :
      /\ p \in DOMAIN pg_temp_pending
      /\ pg_temp_pending[p].forced = last.wanted[p].forced
      /\ pg_temp_pending[p].acting = last.ms[last.wanted[p].forced].pg_temp[p]

(***************************************************************************)
(* Properties of PG creation                                               *)
(***************************************************************************)
\* positions of a handle_pg_create_info chain that has not ended
Active == {"get_map", "make_pg", "init", "advance"}

\* the PG objects constructed for pgid
ObjsOf(pgid) == {i \in 1..Len(pg_objs) : pg_objs[i].pgid = pgid}

IsCreating(pgid) ==
  pgid \in DOMAIN pgs_creating /\ pgs_creating[pgid].creating

WaitersOf(pgid) ==
  IF pgid \in DOMAIN pgs_creating THEN pgs_creating[pgid].waiters ELSE {}

\* the calls that asked for a future on pgid
CallsOn(pgid) == {c \in Calls : calls[c].kind # "idle" /\ calls[c].pgid = pgid}

C1_State ==
  \A pgid \in SpgIds :
    /\ Cardinality({c \in CallsOn(pgid) : calls[c].hpc \in Active}) <= 1
    /\ (\E c \in CallsOn(pgid) : calls[c].hpc \in Active) => IsCreating(pgid)
    /\ Cardinality(ObjsOf(pgid)) <= 1
    /\ store_colls[pgid] <= 1

C1_Step ==
  \A c \in Calls :
    /\ (calls[c].hpc = "none" /\ calls'[c].hpc # "none") =>
         /\ calls[c].kind = "idle"
         /\ calls'[c].kind = "get_or_create_pg" /\ calls'[c].with_info
    /\ (calls[c].kind = "idle" /\ calls'[c].kind = "get_or_create_pg"
        /\ calls'[c].with_info) =>
         LET pgid == calls'[c].pgid IN
           /\ (calls'[c].hpc = "get_map") =
                (pgid \notin DOMAIN pgs /\ ~IsCreating(pgid))
           /\ IsCreating(pgid) =>
                /\ calls'[c].hpc = "none"
                /\ calls'[c].fut = "pending"
                /\ c \in pgs_creating'[pgid].waiters
           /\ UNCHANGED <<pg_objs, store_colls, pgs>>
           /\ \A d \in Calls \ {c} : calls'[d] = calls[d]

\* C1: whatever the interleaving of get_or_create_pg calls with creation
\* info for one identity, at most one handle_pg_create_info is in flight, it
\* is started only by a caller that finds the identity neither present nor
\* creating, a caller that finds it creating only becomes a waiter, and the
\* store gets at most one create_new_collection call (and at most one PG
\* object is made) for the identity.
C1_AtMostOneConstruction == []C1_State /\ [][C1_Step]_vars

\* C1 witness: a second create request arrived while the first one's
\* construction had already asked the store for the collection
C1_Witness ==
  \E c, d \in Calls :
    /\ c # d
    /\ calls[c].hpc \in {"make_pg", "init", "advance"}
    /\ calls[d].kind = "get_or_create_pg" /\ calls[d].with_info
    /\ calls[d].pgid = calls[c].pgid
    /\ calls[d].hpc = "none" /\ calls[d].fut = "pending"
    /\ store_colls[calls[c].pgid] = 1

C2_State ==
  \A pgid \in DOMAIN pgs :
    LET pg == pgs[pgid] IN
      /\ ObjsOf(pgid) = {pg}
      /\ pg_objs[pg].ondisk /\ pg_objs[pg].inited
      /\ store_colls[pgid] = 1
      /\ pgid \notin DOMAIN pgs_creating
      /\ \A c \in CallsOn(pgid) :
           /\ calls[c].hpc \notin Active
           /\ calls[c].fut # "pending"
           /\ calls[c].hit =>
                calls[c].fut = "ready" /\ calls[c].val = pg /\ calls[c].hpc = "none"
      /\ \E c \in CallsOn(pgid) :
           /\ calls[c].hpc = "created" /\ calls[c].pg = pg /\ calls[c].val = pg
           /\ \A d \in CallsOn(pgid) : calls[d].hpc = "created" => d = c

C2_Step ==
  \A c \in Calls :
    /\ (calls[c].hpc = "init" /\ calls'[c].hpc = "advance") =>
         calls'[c].adv_to = osdmap_epoch
    /\ (calls[c].hpc = "advance" /\ calls'[c].hpc = "created") =>
         LET pgid == calls[c].pgid
             pg == calls[c].pg
         IN /\ pgid \in DOMAIN pgs' /\ pgs'[pgid] = pg
            /\ pg_objs'[pg].epoch = calls[c].adv_to
            /\ c \in WaitersOf(pgid)
            /\ \A d \in WaitersOf(pgid) :
                 calls'[d].fut = "ready" /\ calls'[d].val = pg
    /\ (calls[c].kind = "idle" /\ calls'[c].kind # "idle"
        /\ calls'[c].pgid \in DOMAIN pgs) =>
         /\ calls'[c].fut = "ready"
         /\ calls'[c].val = pgs[calls'[c].pgid]
         /\ calls'[c].hpc = "none"
         /\ UNCHANGED <<pgs, pgs_creating, pg_objs, store_colls>>

\* C2: a creation that completes has constructed exactly one PG object for
\* the identity, with its on-disk state queued and initialised, advanced to
\* the epoch that was current when the advance was started; the driver and
\* every waiter registered meanwhile get that PG, and every later
\* get_or_create_pg, wait_for_pg or get_pg returns it at once and starts
\* nothing.
C2_OnePgSharedByAll == []C2_State /\ [][C2_Step]_vars

\* C2 witness: the driver, a waiter that was queued, and a later caller all
\* hold the one PG
C2_Witness ==
  \E c, d, e \in Calls :
    /\ calls[c].hpc = "created"
    /\ d # c /\ calls[d].kind # "idle" /\ ~calls[d].hit
    /\ calls[d].with_info /\ calls[d].val = calls[c].pg
    /\ calls[e].hit /\ calls[e].val = calls[c].pg
    /\ get_pg(calls[c].pgid) = calls[c].pg

\* what the validation of call c's request decides on: not up/acting in the
\* current map or in the map of the creation epoch, or (request of the
\* monitor) a failed pool check
ValidationFails(c) ==
  \/ calls[c].pgid \notin osdmaps[osdmap_epoch]
  \/ calls[c].pgid \notin osdmaps[calls[c].info.epoch]
  \/ calls[c].info.by_mon /\ osdmap_pool # "crimson_creating"

\* the step in which call c's chain runs the validation
Validates(c) ==
  calls[c].hpc = "get_map" /\ calls'[c].hpc \notin {"get_map", "failed"}

\* the creation of call c's identity is cancelled by this step
CancelledBy(c) ==
  LET pgid == calls[c].pgid IN
    /\ calls'[c].hpc = "canceled"
    /\ canceled'[pgid] = canceled[pgid] + 1
    /\ pgid \notin DOMAIN pgs_creating'
    /\ c \in WaitersOf(pgid)
    /\ \A d \in WaitersOf(pgid) :
         calls'[d].fut = "ready" /\ calls'[d].val = NullPG
    /\ UNCHANGED <<pgs, pg_objs, store_colls>>

C3_Step ==
  /\ \A c \in Calls :
       Validates(c) =>
         IF ValidationFails(c)
         THEN CancelledBy(c)
         ELSE calls'[c].hpc = "make_pg" /\ canceled' = canceled
  /\ canceled' # canceled => \E c \in Calls : Validates(c)

C3_State ==
  /\ \A c \in Calls :
       calls[c].hpc = "canceled" =>
         calls[c].pg = NullPG /\ calls[c].fut = "ready" /\ calls[c].val = NullPG
  /\ \A pgid \in SpgIds :
       canceled[pgid] =
         Cardinality({c \in CallsOn(pgid) : calls[c].hpc = "canceled"})

\* C3: when the validation of a creation request fails, that step invokes
\* pg_creation_canceled once for the identity, resolves the driver and all
\* waiters with no PG, and constructs no PG object and creates no
\* collection; when it passes nothing is cancelled.
C3_FailedValidationCancels == []C3_State /\ [][C3_Step]_vars

\* C3 witness: a creation cancelled because the node is not up/acting, with
\* a queued waiter resolved with no PG and nothing constructed
C3_Witness ==
  \E c, d \in Calls :
    /\ calls[c].hpc = "canceled" /\ calls[c].why = "not_up_acting"
    /\ d # c /\ calls[d].kind # "idle" /\ calls[d].hpc = "none"
    /\ ~calls[d].hit /\ (calls[d].with_info \/ calls[d].kind = "wait_for_pg")
    /\ calls[d].fut = "ready" /\ calls[d].val = NullPG
    /\ pg_objs = <<>> /\ store_colls[calls[c].pgid] = 0

\* C4 (as stated): no request carrying creation info reaches make_pg while
\* the pool is missing from the current map, lacks the creating flag or is
\* not eligible.
C4_NoConstructionForIneligiblePool ==
  [][\A c \in Calls :
       (calls[c].hpc = "get_map" /\ calls'[c].hpc = "make_pg") =>
         osdmap_pool = "crimson_creating"]_vars

\* C4 (amended): a request of the monitor (by_mon) whose pool is missing
\* from the current map, lacks the creating flag or is not a crimson pool,
\* and any request whose pool is missing, is cancelled with no PG and never
\* reaches make_pg, collection creation or on-disk initialisation; for a
\* request not made by the monitor the flags of the pool are not looked at.
C4_MonRequestForIneligiblePoolCancelled ==
  [][\A c \in Calls :
       (Validates(c) /\ (\/ osdmap_pool = "dne"
                         \/ calls[c].info.by_mon
                            /\ osdmap_pool # "crimson_creating")) =>
         /\ CancelledBy(c)
         /\ calls'[c].pg = NullPG]_vars

\* C4 witness: a creation cancelled because the pool lost its creating flag
C4_Witness ==
  \E c \in Calls :
    /\ calls[c].hpc = "canceled" /\ calls[c].why = "not_creating"
    /\ calls[c].fut = "ready" /\ calls[c].val = NullPG
    /\ ObjsOf(calls[c].pgid) = {} /\ store_colls[calls[c].pgid] = 0

\* C5: when a step of an in-flight creation fails, the failure reaches the
\* driver as a failed future and no future on the identity stays pending.
C5_FailureSurfaced ==
  \A c \in Calls :
    calls[c].hpc = "failed" =>
      /\ calls[c].fut = "failed"
      /\ \A d \in CallsOn(calls[c].pgid) : calls[d].fut # "pending"

C6_Step ==
  \A c \in Calls :
    (calls[c].kind = "idle" /\ calls'[c].kind = "get_or_create_pg"
     /\ ~calls'[c].with_info) =>
      /\ calls'[c].fut = "ready"
      /\ calls'[c].val = get_pg(calls'[c].pgid)
      /\ calls'[c].hpc = "none"
      /\ UNCHANGED <<pgs, pgs_creating, pg_objs, store_colls, canceled>>
      /\ \A d \in Calls \ {c} : calls'[d] = calls[d]

C6_State ==
  \A c \in Calls :
    (calls[c].kind = "get_or_create_pg" /\ ~calls[c].with_info) =>
      /\ calls[c].fut = "ready" /\ calls[c].hpc = "none"
      /\ c \notin WaitersOf(calls[c].pgid)

\* C6: get_or_create_pg without creation info returns a ready result, the
\* PG of the table or none, registers no waiter, marks nothing as creating,
\* starts no construction and leaves the table and the registry unchanged.
C6_LookupOnly == []C6_State /\ [][C6_Step]_vars

\* C6 witness: one lookup made while the identity was being created (it got
\* nothing) and one made after (it got the PG)
C6_Witness ==
  \E c, d \in Calls :
    /\ calls[c].kind = "get_or_create_pg" /\ ~calls[c].with_info
    /\ calls[c].val = NullPG /\ ~calls[c].hit
    /\ calls[d].kind = "get_or_create_pg" /\ ~calls[d].with_info
    /\ calls[d].val # NullPG /\ calls[d].val = get_pg(calls[d].pgid)
    /\ d > c + 1

(***************************************************************************)
(* Properties of requeue_pg_temp                                           *)
(***************************************************************************)
\* the pg_t keys carried by the messages of a send_pg_temp
SentKeys(ms) ==
  UNION {DOMAIN ms[f].pg_temp : f \in {g \in BOOLEAN : ms[g] # NoMsg}}

\* right after requeue_pg_temp: pending is empty and the keys of wanted are
\* the keys wanted or pending before
C11_State ==
  last.op = "requeue_pg_temp" =>
    /\ pg_temp_pending = EmptyMap
    /\ DOMAIN pg_temp_wanted = (DOMAIN last.wanted) \cup (DOMAIN last.pending)

\* a send_pg_temp that follows sends every key that was pending or wanted; a
\* second requeue_pg_temp changes neither map
C11_Step ==
  last.op = "requeue_pg_temp" =>
    /\ last'.op = "send_pg_temp" =>
         (DOMAIN last.wanted) \cup (DOMAIN last.pending) \subseteq
           SentKeys(last'.ms)
    /\ last'.op = "requeue_pg_temp" =>
         /\ pg_temp_wanted' = pg_temp_wanted
         /\ pg_temp_pending' = pg_temp_pending

\* C11: requeue_pg_temp merges pending back into wanted: afterwards pending
\* is empty and the key set of wanted is the union of the previous wanted and
\* pending key sets, the next send_pg_temp re-sends every pgid that awaited
\* acknowledgement, and a second requeue changes nothing.
C11_RequeueMergesPending == []C11_State /\ [][C11_Step]_vars

\* a requeue that moved a pending-only entry next to a wanted-only one
C11_Witness ==
  /\ last.op = "requeue_pg_temp"
  /\ (DOMAIN last.pending) \ (DOMAIN last.wanted) # {}
  /\ (DOMAIN last.wanted) \ (DOMAIN last.pending) # {}

(***************************************************************************)
(* OSDSingletonState::send_alive                                           *)
(***************************************************************************)
\* the first test dropped: a claim goes out whenever the map lags behind it
AliveSends_no_wanted_check(want, wanted, exists, up_thru) ==
  exists /\ want > up_thru

\* whether send_alive(want) reaches monc.send_message: want passes the test
\* against up_thru_wanted, the osd exists in the map, and up_thru_wanted
\* (want by then) is above the up_thru of the map
AliveSends(want, wanted, exists, up_thru) ==
  want > wanted /\ exists /\ want > up_thru

\* up_thru_wanted after send_alive(want): assigned before the map is read
AliveWanted(want, wanted) == IF want > wanted THEN want ELSE wanted

\* send_alive(want); ok is the outcome of monc.send_message
send_alive(want, ok) ==
  LET sends == AliveSends(want, up_thru_wanted, osd_exists, osd_up_thru) IN
  /\ Len(alive_log) < MaxAliveCalls
  /\ up_thru_wanted' = AliveWanted(want, up_thru_wanted)
  /\ alive_log' = Append(alive_log,
       [want |-> want, wanted_before |-> up_thru_wanted,
        wanted_after |-> up_thru_wanted', exists |-> osd_exists,
        up_thru |-> osd_up_thru, sent |-> sends,
        msg |-> IF sends THEN [map_epoch |-> osdmap_epoch, want |-> want]
                ELSE NoMsg,
        delivered |-> sends /\ ok])
  /\ UNCHANGED <<osd_exists, osd_up_thru, osdmap_epoch, pgtemp_vars, pg_vars,
                 sb_vars, msg_vars>>

\* the next map becomes osdmap: the osd may appear in it or leave it, and
\* its up_thru is one the monitor has recorded, never above the map's epoch
AliveNewMap(exists, up_thru) ==
  /\ osdmap_epoch < MaxEpoch
  /\ osdmap_epoch' = osdmap_epoch + 1
  /\ osdmaps' = MapPut(osdmaps, osdmap_epoch + 1, EmptyOsdMap.up)
  /\ osd_exists' = exists
  /\ osd_up_thru' = up_thru
  /\ exists => up_thru >= (IF osd_exists THEN osd_up_thru ELSE 0)
  /\ ~exists => up_thru = 0
  /\ UNCHANGED <<up_thru_wanted, alive_log, pgtemp_vars, osdmap_pool, pgs,
                 pgs_creating, pg_objs, calls, store_colls, canceled, sb_vars,
                 msg_vars>>

AliveInit ==
  /\ PgTempIdle
  /\ PgTableInit
  /\ AliveIdle
  /\ MapsIdle
  /\ MsgIdle
  /\ osdmap_epoch = 0
  /\ osdmaps = [e \in {0} |-> EmptyOsdMap.up]
  /\ osdmap_pool = EmptyOsdMap.pool

AliveNext ==
  \/ \E want \in 1..MaxEpoch, ok \in BOOLEAN : send_alive(want, ok)
  \/ \E exists \in BOOLEAN, up_thru \in 0..(osdmap_epoch + 1) :
       AliveNewMap(exists, up_thru)

SpecAlive == AliveInit /\ [][AliveNext]_vars

\* the calls of the log that handed a message to monc
AliveSent == {i \in DOMAIN alive_log : alive_log[i].sent}

C12_State ==
  /\ \A i \in AliveSent :
       /\ alive_log[i].want > alive_log[i].wanted_before
       /\ alive_log[i].want > alive_log[i].up_thru
       /\ alive_log[i].msg.want = alive_log[i].want
  /\ \A i \in DOMAIN alive_log :
       alive_log[i].wanted_after >= alive_log[i].wanted_before
  /\ \A i, j \in AliveSent :
       i < j => alive_log[i].msg.want < alive_log[j].msg.want

C12_Step == up_thru_wanted' >= up_thru_wanted

\* C12: across any sequence of send_alive calls a message is sent only if
\* want exceeds up_thru_wanted and the up_thru of the current map;
\* up_thru_wanted never decreases and the epochs carried by successive alive
\* messages are strictly increasing.
C12_AliveMonotonic == []C12_State /\ [][C12_Step]_vars

\* two claims sent, and between them a call refused for its low want
C12_Witness ==
  \E i, j, k \in DOMAIN alive_log :
    /\ i < j /\ j < k
    /\ alive_log[i].sent /\ alive_log[k].sent
    /\ ~alive_log[j].sent /\ alive_log[j].want <= alive_log[j].wanted_before

\* C13: a send_alive call that sends no message is a no-op: it leaves
\* up_thru_wanted (and everything else) unchanged.
C13_NoSendNoChange ==
  \A i \in DOMAIN alive_log :
    ~alive_log[i].sent =>
      alive_log[i].wanted_after = alive_log[i].wanted_before

\* send_alive(w) that did not deliver its claim: monc failed to send it, or
\* the osd was not in the map
AliveUndelivered(i) ==
  \/ alive_log[i].sent /\ ~alive_log[i].delivered
  \/ /\ ~alive_log[i].exists
     /\ alive_log[i].want > alive_log[i].wanted_before

\* C14: a claim that was not delivered is re-sent on a later pass: a later
\* send_alive(w), made while the osd exists and w exceeds its up_thru, sends
\* the claim for w.
C14_AliveResent ==
  \A i, j \in DOMAIN alive_log :
    ( /\ i < j
      /\ AliveUndelivered(i)
      /\ alive_log[j].want = alive_log[i].want
      /\ alive_log[j].exists
      /\ alive_log[j].want > alive_log[j].up_thru )
    => alive_log[j].sent

(***************************************************************************)
(* The superblock, the osdmaps cache and the stored maps                   *)
(***************************************************************************)
\* the least and the greatest element of a non-empty set of epochs
SetMin(S) == CHOOSE x \in S : \A y \in S : x <= y
SetMax(S) == CHOOSE x \in S : \A y \in S : x >= y

\* OSDSuperblock::get_oldest_map / get_newest_map: 0 when maps is empty
get_oldest_map(maps) == IF maps = {} THEN 0 ELSE SetMin(maps)
get_newest_map(maps) == IF maps = {} THEN 0 ELSE SetMax(maps)

\* osdmaps.cached_key_lower_bound(): the smallest epoch resident in the cache
cached_key_lower_bound == SetMin(osdmaps_keys)

\* the epochs live PGs hold a map of; a held map stays resident in osdmaps
LivePgEpochs == {pg_map_epoch[p] : p \in SpgIds} \ {0}

(***************************************************************************)
(* OSDSingletonState::trim_maps                                            *)
(***************************************************************************)
\* the bound taken from the superblock alone
TrimMin_floor_only(floor, lb) == floor

\* the larger of the two bounds
TrimMin_max(floor, lb) == IF floor > lb THEN floor ELSE lb

\* min: the smaller of the cluster's trim lower bound and the cache's
TrimMin(floor, lb) == IF floor < lb THEN floor ELSE lb

\* an iteration that forgets the incremental map
TrimStep_full_only(st) ==
  LET e == get_oldest_map(st.maps) IN
  [maps    |-> st.maps \ {e},
   ops     |-> st.ops + 1,
   rm_full |-> st.rm_full \cup {e},
   rm_inc  |-> st.rm_inc,
   steps   |-> Append(st.steps, [e |-> e, ops |-> st.ops])]

\* one iteration of the loop: remove_map and remove_inc_map of the oldest
\* epoch each add an operation to t, and the epoch leaves superblock.maps;
\* steps records the epoch and the size of t the iteration found
TrimStep(st) ==
  LET e == get_oldest_map(st.maps) IN
  [maps    |-> st.maps \ {e},
   ops     |-> st.ops + 2,
   rm_full |-> st.rm_full \cup {e},
   rm_inc  |-> st.rm_inc \cup {e},
   steps   |-> Append(st.steps, [e |-> e, ops |-> st.ops])]

RECURSIVE TrimLoop(_, _)
\* the loop without the test of the transaction's size
TrimLoop_no_budget(st, min) ==
  IF get_oldest_map(st.maps) < min /\ st.maps # {}
  THEN TrimLoop(TrimStep(st), min)
  ELSE st

\* a single iteration instead of the loop
TrimLoop_single(st, min) ==
  IF get_oldest_map(st.maps) < min /\ st.ops < TargetTxnSize
  THEN TrimStep(st)
  ELSE st

\* while (oldest < min && t.get_num_ops() < osd_target_transaction_size)
TrimLoop(st, min) ==
  IF get_oldest_map(st.maps) < min /\ st.ops < TargetTxnSize
  THEN TrimLoop(TrimStep(st), min)
  ELSE st

\* trim_maps(t, superblock) with t holding ops operations: the superblock's
\* maps, the operations of t and the removals queued; assert_ok is the
\* trailing ceph_assert
TrimMaps(maps, floor, lb, ops) ==
  LET min == TrimMin(floor, lb)
      st0 == [maps |-> maps, ops |-> ops, rm_full |-> {}, rm_inc |-> {},
              steps |-> <<>>]
      st  == IF min <= get_oldest_map(maps) THEN st0 ELSE TrimLoop(st0, min)
  IN [maps |-> st.maps, ops |-> st.ops, rm_full |-> st.rm_full,
      rm_inc |-> st.rm_inc, steps |-> st.steps, min |-> min,
      assert_ok |-> min <= lb]

\* trim_maps as OSD::handle_osd_map calls it (on a superblock that holds
\* maps), with the transaction then committed; meta_maps follows the full
\* maps, the incremental maps stored and removed are those of q_inc and
\* rm_inc.  prev tells whether the call before was a trim_maps too, with
\* nothing in between, and what that call did
trim_maps(ops) ==
  LET r == TrimMaps(sb_maps, sb_trim_lb, cached_key_lower_bound, ops) IN
  /\ sb_maps # {}
  /\ sb_maps' = r.maps
  /\ meta_maps' = meta_maps \ r.rm_full
  /\ maps_last' = [op |-> "trim_maps", maps |-> sb_maps,
                   floor |-> sb_trim_lb, lb |-> cached_key_lower_bound,
                   ops |-> ops, res |-> r,
                   prev |-> IF maps_last.op = "trim_maps"
                            THEN [trim |-> TRUE,
                                  within_budget |->
                                    maps_last.res.ops < TargetTxnSize,
                                  removed |-> maps_last.res.rm_full # {}]
                            ELSE [trim |-> FALSE, within_budget |-> FALSE,
                                  removed |-> FALSE]]
  /\ UNCHANGED <<sb_trim_lb, osdmaps_keys, map_bl_cache, pg_map_epoch,
                 osdmap_epoch, pgtemp_vars, pg_vars, alive_vars, msg_vars>>

\* a map message raises superblock.cluster_osdmap_trim_lower_bound
SetTrimLowerBound(floor) ==
  /\ floor > sb_trim_lb
  /\ sb_trim_lb' = floor
  /\ maps_last' = [op |-> "set_trim_lower_bound"]
  /\ UNCHANGED <<sb_maps, osdmaps_keys, map_bl_cache, meta_maps,
                 pg_map_epoch,
                 osdmap_epoch, pgtemp_vars, pg_vars, alive_vars, msg_vars>>

\* the maps of the osdmaps cache nobody holds: not the current map, not the
\* map of a live PG
UnheldMaps == osdmaps_keys \ (LivePgEpochs \cup {osdmap_epoch})

\* the osdmaps cache drops the oldest map nobody holds
EvictMap ==
  /\ UnheldMaps # {}
  /\ osdmaps_keys' = osdmaps_keys \ {SetMin(UnheldMaps)}
  /\ maps_last' = [op |-> "evict"]
  /\ UNCHANGED <<sb_maps, sb_trim_lb, map_bl_cache, meta_maps,
                 pg_map_epoch,
                 osdmap_epoch, pgtemp_vars, pg_vars, alive_vars, msg_vars>>

\* map_bl_cache drops its oldest buffer
EvictMapBl ==
  /\ map_bl_cache # {}
  /\ map_bl_cache' = map_bl_cache \ {SetMin(map_bl_cache)}
  /\ maps_last' = [op |-> "evict_bl"]
  /\ UNCHANGED <<sb_maps, sb_trim_lb, osdmaps_keys, meta_maps,
                 pg_map_epoch,
                 osdmap_epoch, pgtemp_vars, pg_vars, alive_vars, msg_vars>>

(***************************************************************************)
(* OSDSingletonState::get_local_map, load_map, load_map_bl                 *)
(***************************************************************************)
\* load_map_bl(e): the buffer comes from map_bl_cache, else from meta_coll,
\* which fails for an epoch it does not store; a loaded buffer is cached
load_map_bl(bl, e) ==
  IF e \in bl THEN [ok |-> TRUE, bl |-> bl]
  ELSE IF e \in meta_maps THEN [ok |-> TRUE, bl |-> bl \cup {e}]
  ELSE [ok |-> FALSE, bl |-> bl]

\* load_map(e): epoch 0 is an empty OSDMap and reads nothing
load_map(bl, e) ==
  IF e = 0 THEN [ok |-> TRUE, bl |-> bl] ELSE load_map_bl(bl, e)

\* get_local_map returning the loaded map without inserting it
get_local_map_no_insert(keys, bl, e) ==
  IF e \in keys
  THEN [ok |-> TRUE, found |-> TRUE, keys |-> keys, bl |-> bl]
  ELSE LET r == load_map(bl, e) IN
       [ok |-> r.ok, found |-> FALSE, keys |-> keys, bl |-> r.bl]

\* get_local_map(e): the cached map if osdmaps holds one, else the loaded
\* map, inserted into osdmaps
get_local_map(keys, bl, e) ==
  IF e \in keys
  THEN [ok |-> TRUE, found |-> TRUE, keys |-> keys, bl |-> bl]
  ELSE LET r == load_map(bl, e) IN
       [ok |-> r.ok, found |-> FALSE,
        keys |-> IF r.ok THEN keys \cup {e} ELSE keys, bl |-> r.bl]

\* a PG takes the map of epoch e through get_local_map: a PG being created
\* or loaded asks for an epoch the cluster has not allowed to be trimmed, a
\* live PG advances to a later epoch; no epoch is asked for beyond the
\* current map's
PgGetMap(pgid, e) ==
  LET r == get_local_map(osdmaps_keys, map_bl_cache, e) IN
  /\ e >= 1 /\ e <= osdmap_epoch
  /\ IF pg_map_epoch[pgid] = 0
     THEN e >= sb_trim_lb
     ELSE e > pg_map_epoch[pgid]
  /\ osdmaps_keys' = r.keys
  /\ map_bl_cache' = r.bl
  /\ pg_map_epoch' = IF r.ok THEN [pg_map_epoch EXCEPT ![pgid] = e]
                     ELSE pg_map_epoch
  /\ maps_last' = [op |-> "get_local_map", e |-> e, ok |-> r.ok,
                   found |-> r.found]
  /\ UNCHANGED <<sb_maps, sb_trim_lb, meta_maps,
                 osdmap_epoch, pgtemp_vars, pg_vars, alive_vars, msg_vars>>

\* a live PG is stopped and lets go of its map
PgStop(pgid) ==
  /\ pg_map_epoch[pgid] # 0
  /\ pg_map_epoch' = [pg_map_epoch EXCEPT ![pgid] = 0]
  /\ maps_last' = [op |-> "pg_stop"]
  /\ UNCHANGED <<sb_maps, sb_trim_lb, osdmaps_keys, map_bl_cache, meta_maps,
                 osdmap_epoch, pgtemp_vars, pg_vars,
                 alive_vars, msg_vars>>

(***************************************************************************)
(* OSDSingletonState::store_maps                                           *)
(***************************************************************************)
\* the MOSDMap messages: get_last(), the epochs of maps and of
\* incremental_maps; an epoch may come in both forms, in one, or in none
\* (to keep the messages few only the first epoch comes in both)
MapMsgs(start) ==
  LET range == {e \in start..(start + MaxBatch - 1) : e <= MaxMapEpoch} IN
  {m \in [last : range, maps : SUBSET range, incremental_maps : SUBSET range] :
     /\ m.maps \cup m.incremental_maps \subseteq start..m.last
     /\ m.maps \cap m.incremental_maps \subseteq {start}}

\* whether the process survives the undefined read of store_maps, which a
\* message holding no map at all leads to
UbOutcomes(m) ==
  IF m.maps \cup m.incremental_maps = {} THEN BOOLEAN ELSE {FALSE}

\* an OSDMap object as far as store_maps can tell two of them apart: the
\* epoch it stands at
OSDMapAt(e) == [epoch |-> e]

\* OSDMap::encode and OSDMap::decode: the full encoding carries the epoch
\* of the map it was made from
EncodeFull(o) == <<"osdmap", o.epoch>>

DecodeFull(bl) == [epoch |-> bl[2]]

\* the full encoding of epoch e in a MOSDMap, and the one the store or the
\* cache of encodings holds for e from an earlier batch
FullBytes(e) == EncodeFull(OSDMapAt(e))

\* OSDMap::apply_incremental: the incremental of epoch e moves a map from
\* e - 1 to e
apply_incremental(o, e) == [epoch |-> o.epoch + 1]

\* the map load_map(e) decodes: a fresh OSDMap for e = 0, else the bytes
\* load_map_bl finds, which are those stored earlier in this batch if any
LoadedMap(st, e) ==
  IF e = 0 THEN OSDMapAt(0)
  ELSE DecodeFull(IF e \in DOMAIN st.stored THEN st.stored[e]
                  ELSE FullBytes(e))

\* std::map::emplace into a map that has no such key yet
Emplace(f, k, v) ==
  [x \in DOMAIN f \cup {k} |-> IF x \in DOMAIN f THEN f[x] ELSE v]

\* the incremental branch encoding the map before the incremental is
\* applied to it
StoreEpoch_stale_full(st, e, m) ==
  IF e \in m.maps
  THEN [st EXCEPT !.q_full = @ \cup {e}, !.bl = @ \cup {e},
                  !.keys = @ \cup {e}, !.added = @ \cup {e},
                  !.order = Append(@, e),
                  !.stored = Emplace(@, e, FullBytes(e)),
                  !.cached = Emplace(@, e, DecodeFull(FullBytes(e)))]
  ELSE IF e \in m.incremental_maps
  THEN LET r == load_map(st.bl, e - 1)
           o == LoadedMap(st, e - 1) IN
       IF r.ok
       THEN [st EXCEPT !.q_inc = @ \cup {e}, !.q_full = @ \cup {e},
                       !.bl = r.bl \cup {e}, !.keys = @ \cup {e},
                       !.added = @ \cup {e},
                       !.order = Append(@, e),
                       !.stored = Emplace(@, e, EncodeFull(o)),
                       !.cached = Emplace(@, e, apply_incremental(o, e))]
       ELSE [st EXCEPT !.failed = TRUE, !.order = Append(@, e)]
  ELSE [st EXCEPT !.skipped = @ \cup {e}, !.order = Append(@, e)]

\* the incremental branch tried before the full one
StoreEpoch_inc_first(st, e, m) ==
  IF e \in m.incremental_maps
  THEN LET r == load_map(st.bl, e - 1)
           o == apply_incremental(LoadedMap(st, e - 1), e) IN
       IF r.ok
       THEN [st EXCEPT !.q_inc = @ \cup {e}, !.q_full = @ \cup {e},
                       !.bl = r.bl \cup {e}, !.keys = @ \cup {e},
                       !.added = @ \cup {e},
                       !.order = Append(@, e),
                       !.stored = Emplace(@, e, EncodeFull(o)),
                       !.cached = Emplace(@, e, o)]
       ELSE [st EXCEPT !.failed = TRUE, !.order = Append(@, e)]
  ELSE IF e \in m.maps
  THEN [st EXCEPT !.q_full = @ \cup {e}, !.bl = @ \cup {e},
                  !.keys = @ \cup {e}, !.added = @ \cup {e},
                  !.order = Append(@, e),
                  !.stored = Emplace(@, e, FullBytes(e)),
                  !.cached = Emplace(@, e, DecodeFull(FullBytes(e)))]
  ELSE [st EXCEPT !.skipped = @ \cup {e}, !.order = Append(@, e)]

\* store_map_bl writing to the transaction only, not to map_bl_cache
StoreEpoch_no_bl_cache(st, e, m) ==
  IF e \in m.maps
  THEN [st EXCEPT !.q_full = @ \cup {e},
                  !.keys = @ \cup {e}, !.added = @ \cup {e},
                  !.order = Append(@, e),
                  !.stored = Emplace(@, e, FullBytes(e)),
                  !.cached = Emplace(@, e, DecodeFull(FullBytes(e)))]
  ELSE IF e \in m.incremental_maps
  THEN LET r == load_map(st.bl, e - 1)
           o == apply_incremental(LoadedMap(st, e - 1), e) IN
       IF r.ok
       THEN [st EXCEPT !.q_inc = @ \cup {e}, !.q_full = @ \cup {e},
                       !.bl = r.bl, !.keys = @ \cup {e},
                       !.added = @ \cup {e},
                       !.order = Append(@, e),
                       !.stored = Emplace(@, e, EncodeFull(o)),
                       !.cached = Emplace(@, e, o)]
       ELSE [st EXCEPT !.failed = TRUE, !.order = Append(@, e)]
  ELSE [st EXCEPT !.skipped = @ \cup {e}, !.order = Append(@, e)]

\* an epoch stored and cached but left out of added_maps
StoreEpoch_not_added(st, e, m) ==
  IF e \in m.maps
  THEN [st EXCEPT !.q_full = @ \cup {e}, !.bl = @ \cup {e},
                  !.keys = @ \cup {e},
                  !.order = Append(@, e),
                  !.stored = Emplace(@, e, FullBytes(e)),
                  !.cached = Emplace(@, e, DecodeFull(FullBytes(e)))]
  ELSE IF e \in m.incremental_maps
  THEN LET r == load_map(st.bl, e - 1)
           o == apply_incremental(LoadedMap(st, e - 1), e) IN
       IF r.ok
       THEN [st EXCEPT !.q_inc = @ \cup {e}, !.q_full = @ \cup {e},
                       !.bl = r.bl \cup {e}, !.keys = @ \cup {e},
                       !.added = @ \cup {e},
                       !.order = Append(@, e),
                       !.stored = Emplace(@, e, EncodeFull(o)),
                       !.cached = Emplace(@, e, o)]
       ELSE [st EXCEPT !.failed = TRUE, !.order = Append(@, e)]
  ELSE [st EXCEPT !.skipped = @ \cup {e}, !.order = Append(@, e)]

\* the body of the loop for epoch e: a full map is decoded, stored and
\* cached; else an incremental map is applied to the loaded map of e - 1,
\* the incremental and the re-encoded full map are stored and the map is
\* cached; an epoch in neither is logged and passed over.  order lists the
\* epochs in the order the loop took them up, stored and cached hold what
\* went into the transaction as full bytes and into osdmaps for each epoch
StoreEpoch(st, e, m) ==
  IF e \in m.maps
  THEN [st EXCEPT !.q_full = @ \cup {e}, !.bl = @ \cup {e},
                  !.keys = @ \cup {e}, !.added = @ \cup {e},
                  !.order = Append(@, e),
                  !.stored = Emplace(@, e, FullBytes(e)),
                  !.cached = Emplace(@, e, DecodeFull(FullBytes(e)))]
  ELSE IF e \in m.incremental_maps
  THEN LET r == load_map(st.bl, e - 1)
           o == apply_incremental(LoadedMap(st, e - 1), e) IN
       IF r.ok
       THEN [st EXCEPT !.q_inc = @ \cup {e}, !.q_full = @ \cup {e},
                       !.bl = r.bl \cup {e}, !.keys = @ \cup {e},
                       !.added = @ \cup {e},
                       !.order = Append(@, e),
                       !.stored = Emplace(@, e, EncodeFull(o)),
                       !.cached = Emplace(@, e, o)]
       ELSE [st EXCEPT !.failed = TRUE, !.order = Append(@, e)]
  ELSE [st EXCEPT !.skipped = @ \cup {e}, !.order = Append(@, e)]

\* do_for_each over [start, m->get_last()]: a failed future ends it
RECURSIVE StoreLoop(_, _, _)
StoreLoop(st, e, m) ==
  IF e > m.last \/ st.failed THEN st
  ELSE StoreLoop(StoreEpoch(st, e, m), e + 1, m)

\* store_maps(t, start, m): what it queued into t, the caches afterwards,
\* added_maps, and how its future resolved.  After the loop the map of the
\* superblock's newest epoch is fetched for store_final_pool_info.  Reading
\* added_maps.begin() of an empty added_maps is undefined: ub tells whether
\* the process survives it
StoreMaps(start, m, ub) ==
  LET st0 == [q_full |-> {}, q_inc |-> {}, bl |-> map_bl_cache,
              keys |-> osdmaps_keys, added |-> {}, skipped |-> {},
              order |-> <<>>, stored |-> <<>>, cached |-> <<>>,
              failed |-> FALSE]
      st  == StoreLoop(st0, start, m)
      newest == get_newest_map(sb_maps)
      lm  == IF newest > 0 /\ ~st.failed
             THEN get_local_map(st.keys, st.bl, newest)
             ELSE [ok |-> TRUE, found |-> FALSE, keys |-> st.keys,
                   bl |-> st.bl]
  IN [q_full |-> st.q_full, q_inc |-> st.q_inc, added |-> st.added,
      skipped |-> st.skipped, keys |-> lm.keys, bl |-> lm.bl,
      order |-> st.order, stored |-> st.stored, cached |-> st.cached,
      outcome |-> IF st.failed \/ ~lm.ok THEN "failed"
                  ELSE IF st.added = {} /\ ub THEN "crashed"
                  ELSE "ok"]

\* store_maps as OSD::handle_osd_map calls it, start following the
\* superblock's newest map; when the future resolves the transaction is
\* committed, the superblock's range is extended up to the highest epoch
\* applied and that map becomes the current one.  A failed future drops
\* the transaction.
store_maps(m, ub) ==
  LET start == get_newest_map(sb_maps) + 1
      r == StoreMaps(start, m, ub)
      ok == r.outcome = "ok"
      cur == SetMax(r.added \cup {osdmap_epoch})
  IN
  /\ osdmaps_keys' = r.keys
  /\ map_bl_cache' = r.bl
  /\ meta_maps' = IF ok THEN meta_maps \cup r.q_full ELSE meta_maps
  /\ sb_maps' = IF ok /\ r.added # {}
                THEN sb_maps \cup (start..SetMax(r.added)) ELSE sb_maps
  /\ osdmap_epoch' = IF ok THEN cur ELSE osdmap_epoch
  /\ osdmaps' = IF ok
                THEN [e \in 0..cur |->
                        IF e \in DOMAIN osdmaps THEN osdmaps[e] ELSE {}]
                ELSE osdmaps
  /\ maps_last' = [op |-> "store_maps", start |-> start, m |-> m, res |-> r]
  /\ UNCHANGED <<sb_trim_lb, pg_map_epoch, osdmap_pool, pgs, pgs_creating,
                 pg_objs, calls, store_colls, canceled, pgtemp_vars,
                 alive_vars, msg_vars>>

(***************************************************************************)
(* The map store specification                                             *)
(***************************************************************************)
MapsInit ==
  /\ PgTempIdle
  /\ PgTableInit
  /\ AliveIdle
  /\ MapsIdle
  /\ MsgIdle
  /\ osdmap_epoch = 0
  /\ osdmaps = [e \in {0} |-> EmptyOsdMap.up]
  /\ osdmap_pool = EmptyOsdMap.pool

MapsNext ==
  \/ \E m \in MapMsgs(get_newest_map(sb_maps) + 1) :
       \E ub \in UbOutcomes(m) : store_maps(m, ub)
  \/ \E ops \in 0..TargetTxnSize : trim_maps(ops)
  \/ \E floor \in 1..MaxMapEpoch : SetTrimLowerBound(floor)
  \/ EvictMap
  \/ EvictMapBl
  \/ \E pgid \in SpgIds, e \in 1..MaxMapEpoch : PgGetMap(pgid, e)
  \/ \E pgid \in SpgIds : PgStop(pgid)

SpecMaps == MapsInit /\ [][MapsNext]_vars

(***************************************************************************)
(* Properties of trim_maps                                                 *)
(***************************************************************************)
Trimmed == maps_last.op = "trim_maps"

\* min(cluster_osdmap_trim_lower_bound, cached_key_lower_bound()) of the
\* last trim_maps call
LastTrimMin ==
  IF maps_last.floor < maps_last.lb THEN maps_last.floor ELSE maps_last.lb

\* C15: trim_maps never trims past the cache's lower bound: it removes only
\* epochs strictly below min(cluster_osdmap_trim_lower_bound,
\* cached_key_lower_bound()); afterwards the superblock's oldest map is at
\* most the cache lower bound if it was before, and the trailing assertion
\* holds.
C15_TrimBelowCacheBound ==
  Trimmed =>
    /\ \A e \in maps_last.res.rm_full \cup maps_last.res.rm_inc :
         e < maps_last.floor /\ e < maps_last.lb
    /\ maps_last.maps \ sb_maps = maps_last.res.rm_full
    /\ get_oldest_map(maps_last.maps) <= maps_last.lb
         => get_oldest_map(sb_maps) <= maps_last.lb
    /\ sb_maps # {}
    /\ maps_last.res.assert_ok

\* a trim that the cache's bound, lower than the cluster's, held back
C15_Witness ==
  /\ Trimmed
  /\ maps_last.res.rm_full # {}
  /\ maps_last.lb < maps_last.floor
  /\ get_oldest_map(sb_maps) = maps_last.lb

\* C16: when the transaction budget is not exhausted trim_maps ends with the
\* oldest map equal to min(trim floor, cache lower bound) whenever that
\* minimum exceeds the previous oldest map, the removal of the full and the
\* incremental map of every epoch in between queued; when the minimum is
\* not above the oldest map it adds no operation and leaves the superblock
\* unchanged.
C16_TrimReachesMin ==
  Trimmed =>
    LET old == get_oldest_map(maps_last.maps) IN
    /\ (LastTrimMin > old /\ maps_last.res.ops < TargetTxnSize) =>
         /\ get_oldest_map(sb_maps) = LastTrimMin
         /\ maps_last.res.rm_full = old..(LastTrimMin - 1)
         /\ maps_last.res.rm_inc = old..(LastTrimMin - 1)
         /\ meta_maps \cap (old..(LastTrimMin - 1)) = {}
    /\ LastTrimMin <= old =>
         /\ sb_maps = maps_last.maps
         /\ maps_last.res.ops = maps_last.ops
         /\ maps_last.res.rm_full = {} /\ maps_last.res.rm_inc = {}

\* the trim floor at the newest map, no older map resident in the cache:
\* the older maps are trimmed and the oldest map is the floor
C16_Witness ==
  /\ Trimmed
  /\ maps_last.floor = get_newest_map(maps_last.maps)
  /\ maps_last.lb >= maps_last.floor
  /\ get_oldest_map(maps_last.maps) < maps_last.floor
  /\ get_oldest_map(sb_maps) = maps_last.floor

\* a further trim_maps call changes nothing, whatever transaction it is
\* given and for the same or a lower trim floor
NoFurtherTrim ==
  /\ maps_last.prev.trim =>
       /\ sb_maps = maps_last.maps
       /\ maps_last.res.ops = maps_last.ops
       /\ maps_last.res.rm_full = {} /\ maps_last.res.rm_inc = {}
  /\ \A floor \in 0..maps_last.floor, ops \in 0..TargetTxnSize :
       LET r == TrimMaps(sb_maps, floor, cached_key_lower_bound, ops) IN
       r.maps = sb_maps /\ r.ops = ops /\ r.rm_full = {} /\ r.rm_inc = {}

\* C17 (as stated): after one trim_maps call a further call with the same or
\* a lower trim floor and an unchanged cache lower bound changes nothing and
\* queues no removal.
C17_TrimIdempotent == Trimmed => NoFurtherTrim

\* C17 (amended): after a trim_maps call that left its transaction below
\* osd_target_transaction_size, a further call with the same or a lower
\* trim floor and an unchanged cache lower bound changes nothing and queues
\* no removal.
C17_TrimIdempotentWithinBudget ==
  /\ (Trimmed /\ maps_last.res.ops < TargetTxnSize) =>
       \A floor \in 0..maps_last.floor, ops \in 0..TargetTxnSize :
         LET r == TrimMaps(sb_maps, floor, cached_key_lower_bound, ops) IN
         r.maps = sb_maps /\ r.ops = ops /\ r.rm_full = {} /\ r.rm_inc = {}
  /\ (Trimmed /\ maps_last.prev.trim /\ maps_last.prev.within_budget) =>
       /\ sb_maps = maps_last.maps
       /\ maps_last.res.ops = maps_last.ops
       /\ maps_last.res.rm_full = {} /\ maps_last.res.rm_inc = {}

\* a second trim_maps right after one that removed maps within its budget
C17_Witness ==
  /\ Trimmed
  /\ maps_last.prev.trim
  /\ maps_last.prev.removed
  /\ maps_last.prev.within_budget

\* C18: trim_maps removes epochs one at a time in increasing order and stops
\* once the transaction holds osd_target_transaction_size operations: no
\* epoch's removal is queued into a transaction that has reached the budget,
\* the oldest map is left at the first epoch not removed, and the removed
\* epochs are a contiguous prefix of the retained range.
C18_TrimStopsAtBudget ==
  Trimmed =>
    LET steps == maps_last.res.steps
        old == get_oldest_map(maps_last.maps)
    IN /\ \A i \in DOMAIN steps :
            /\ steps[i].ops < TargetTxnSize
            /\ steps[i].e = old + i - 1
       /\ maps_last.res.rm_full = {steps[i].e : i \in DOMAIN steps}
       /\ maps_last.maps \ sb_maps = maps_last.res.rm_full
       /\ get_oldest_map(sb_maps) = old + Len(steps)
       /\ maps_last.res.ops >= TargetTxnSize =>
            maps_last.res.ops <= TargetTxnSize + 1

\* a trim the budget stopped after it had removed a map, short of min
C18_Witness ==
  /\ Trimmed
  /\ Len(maps_last.res.steps) >= 1
  /\ maps_last.res.ops >= TargetTxnSize
  /\ get_oldest_map(sb_maps) < LastTrimMin

\* C19: in every reachable state the superblock retains the epoch of the map
\* of every live PG (oldest map <= epoch <= newest map), and no trim
\* removes the map of a live PG.
C19_LivePgEpochsRetained ==
  /\ \A e \in LivePgEpochs :
       /\ get_oldest_map(sb_maps) <= e /\ e <= get_newest_map(sb_maps)
       /\ e \in sb_maps
  /\ Trimmed => maps_last.res.rm_full \cap LivePgEpochs = {}

\* a trim that removed maps below the map of a live PG, the cluster's floor
\* being above that map
C19_Witness ==
  /\ Trimmed
  /\ maps_last.res.rm_full # {}
  /\ \E e \in LivePgEpochs : maps_last.floor > e

(***************************************************************************)
(* Properties of store_maps                                                *)
(***************************************************************************)
\* C20: applying a map message fails if it carries neither a full nor an
\* incremental map for some epoch of [start, last]; such an epoch is never
\* passed over while the other epochs are stored.
C20_MissingEpochFailsBatch ==
  ( /\ maps_last.op = "store_maps"
    /\ \E e \in maps_last.start..maps_last.m.last :
         e \notin maps_last.m.maps \cup maps_last.m.incremental_maps )
  => maps_last.res.outcome = "failed"

\* a store_maps call has just resolved
StoreDone == maps_last.op = "store_maps"

\* the epochs a message brings as an incremental map only
IncOnly(m) == m.incremental_maps \ m.maps

\* C21: of every epoch store_maps took up, one that the message brings as a
\* full map (with or without an incremental map) is decoded, stored as
\* those bytes and cached, and no incremental map is stored for it; one
\* that comes as an incremental map only is, when e - 1 loads, stored both
\* as the incremental and as the re-encoded full map in the same
\* transaction, and the map reached from e - 1 is cached under e.
C21_FullFirstElseIncremental ==
  StoreDone =>
    LET r == maps_last.res
        m == maps_last.m IN
    \A i \in 1..Len(r.order) :
      LET e == r.order[i] IN
      /\ e \in m.maps =>
           /\ e \in r.added /\ e \in r.q_full /\ e \notin r.q_inc
           /\ r.stored[e] = FullBytes(e)
           /\ r.cached[e] = DecodeFull(FullBytes(e))
           /\ e \in r.keys
      /\ (e \in IncOnly(m) /\ e \in r.added) =>
           /\ e \in r.q_inc /\ e \in r.q_full
           /\ r.cached[e] = OSDMapAt(e)
           /\ r.stored[e] = EncodeFull(OSDMapAt(e))
           /\ e \in r.keys
      /\ (e \in IncOnly(m) /\ e \notin r.added) => r.outcome = "failed"

\* a resolved batch whose first epoch came in both forms and whose second
\* came as an incremental map only
C21_Witness ==
  /\ StoreDone
  /\ maps_last.res.outcome = "ok"
  /\ maps_last.start \in maps_last.m.maps \cap maps_last.m.incremental_maps
  /\ maps_last.start + 1 \in IncOnly(maps_last.m) \cap maps_last.res.added

C24_EpochsInOrder ==
  StoreDone =>
    LET r == maps_last.res
        m == maps_last.m IN
    /\ \A i \in 1..Len(r.order) : r.order[i] = maps_last.start + i - 1
    /\ \A i \in 1..(Len(r.order) - 1) : r.order[i] \in r.added \cup r.skipped
    /\ \A e \in r.added :
         (e + 1 <= m.last /\ e + 1 \in IncOnly(m)) => e + 1 \in r.added

\* a batch whose first epoch came as a full map only and whose second was
\* reached from it by an incremental map
C24_Witness ==
  /\ StoreDone
  /\ maps_last.res.order = <<maps_last.start, maps_last.start + 1>>
  /\ maps_last.start \in maps_last.m.maps \ maps_last.m.incremental_maps
  /\ maps_last.start \in maps_last.res.added
  /\ maps_last.start + 1 \in IncOnly(maps_last.m) \cap maps_last.res.added

(***************************************************************************)
(* build_incremental_map_msg                                               *)
(***************************************************************************)
\* osd_map_message_max: the number of epochs a MOSDMap is to carry
MsgMax == 2

\* osd_map_message_max_bytes
MsgMaxBytes == 3

\* the lengths of an encoding: small, or alone above the byte budget
BlLens == {1, MsgMaxBytes + 1}

\* what is stored for the epochs: a run of epochs, each with its full map
\* and possibly its incremental map ("inc"), the others with nothing
MapBlStores ==
  {f \in [1..MaxMapEpoch -> [form : {"inc", "full", "none"}, len : BlLens]] :
     /\ \E lo, hi \in 1..MaxMapEpoch :
          \A e \in 1..MaxMapEpoch : (f[e].form # "none") <=> (lo <= e /\ e <= hi)
     /\ \A e \in 1..MaxMapEpoch : f[e].form = "none" => f[e].len = 1}

\* load_map_bls(first, last): for each epoch the incremental map if it
\* loads, else the full map; an epoch with neither fails the future
load_map_bls(bls, first, last_e) ==
  [ok  |-> \A e \in first..last_e : e \in DOMAIN bls /\ bls[e].form # "none",
   bls |-> [e \in {x \in first..last_e : x \in DOMAIN bls} |-> bls[e]]]

\* the loop over bls taking every entry, whatever its length
RECURSIVE FillLoop_no_budget(_, _, _, _, _)
FillLoop_no_budget(msg, budget, e, upper, bls) ==
  IF e > upper THEN msg
  ELSE FillLoop_no_budget(
         IF bls[e].form = "full"
         THEN [msg EXCEPT !.maps = Emplace(@, e, bls[e].len)]
         ELSE [msg EXCEPT !.incremental_maps = Emplace(@, e, bls[e].len)],
         budget - bls[e].len, e + 1, upper, bls)

\* the loop over bls in epoch order: the length of an entry is taken off
\* the budget and, the budget being below zero then, the loop ends before
\* the entry is put into the message
RECURSIVE FillLoop(_, _, _, _, _)
FillLoop(msg, budget, e, upper, bls) ==
  IF e > upper THEN msg
  ELSE LET left == budget - bls[e].len IN
       IF left < 0 THEN msg
       ELSE FillLoop(
              IF bls[e].form = "full"
              THEN [msg EXCEPT !.maps = Emplace(@, e, bls[e].len)]
              ELSE [msg EXCEPT !.incremental_maps = Emplace(@, e, bls[e].len)],
              left, e + 1, upper, bls)

\* first < cluster_osdmap_trim_lower_bound: first becomes the floor and the
\* continuation of load_map_bl(first) puts the floor's full map under
\* m->maps[first], takes one off map_message_max and increments first.  It
\* reaches first through a reference to the parameter of
\* build_incremental_map_msg.  Run inline (load_map_bl ready and then()
\* running it at once) it is done before the next continuation copies
\* first; deferred, the copy is taken before the increment and the
\* reference dangles by the time it runs: key is what it then reads
GapFill(first, floor, bls, inline, key) ==
  IF first < floor
  THEN IF bls[floor].form = "none"
       THEN [ok |-> FALSE, maps |-> <<>>, max |-> MsgMax, first |-> floor,
             gap |-> 0]
       ELSE IF inline
       THEN [ok |-> TRUE, maps |-> Emplace(<<>>, floor, bls[floor].len),
             max |-> MsgMax - 1, first |-> floor + 1, gap |-> floor]
       ELSE [ok |-> TRUE, maps |-> Emplace(<<>>, key, bls[floor].len),
             max |-> MsgMax - 1, first |-> floor, gap |-> key]
  ELSE [ok |-> TRUE, maps |-> <<>>, max |-> MsgMax, first |-> first,
        gap |-> 0]

\* the last epoch handed to load_map_bls
LoadUpper(first, last_e, max) ==
  IF last_e - first > max THEN first + max ELSE last_e

\* build_incremental_map_msg(first, last): the message built (maps and
\* incremental_maps, epoch -> length of the encoding), the key of the
\* gap-fill entry (0: none), the range loaded, and how the future resolved
BuildIncrementalMapMsg(first, last_e, floor, bls, inline, key) ==
  LET g == GapFill(first, floor, bls, inline, key)
      m0 == [maps |-> g.maps, incremental_maps |-> <<>>]
      upper == LoadUpper(g.first, last_e, g.max)
      l == load_map_bls(bls, g.first, upper)
      none == [maps |-> <<>>, incremental_maps |-> <<>>]
  IN IF ~g.ok
     THEN [outcome |-> "failed", m |-> none, gap |-> 0, from |-> g.first,
           upper |-> 0]
     ELSE IF g.first > last_e
     THEN [outcome |-> IF DOMAIN m0.maps = {} THEN "aborted" ELSE "ok",
           m |-> IF DOMAIN m0.maps = {} THEN none ELSE m0,
           gap |-> g.gap, from |-> g.first, upper |-> 0]
     ELSE IF ~l.ok
     THEN [outcome |-> "failed", m |-> none, gap |-> 0, from |-> g.first,
           upper |-> upper]
     ELSE [outcome |-> "ok",
           m |-> FillLoop(m0, MsgMaxBytes, g.first, upper, l.bls),
           gap |-> g.gap, from |-> g.first, upper |-> upper]

\* a call of build_incremental_map_msg
build_incremental_map_msg(first, last_e, inline, key) ==
  /\ inc_msg' = [op |-> "build", first |-> first, last |-> last_e,
                 floor |-> sb_trim_lb, inline |-> inline,
                 res |-> BuildIncrementalMapMsg(first, last_e, sb_trim_lb,
                                                map_bls, inline, key)]
  /\ UNCHANGED <<map_bls, dispatch_last, osdmap_epoch, pgtemp_vars, pg_vars,
                 alive_vars, sb_vars, aux_vars>>

\* an osd with maps stored and a trim floor, nothing else going on
IncInit ==
  /\ PgTempIdle
  /\ PgTableInit
  /\ AliveIdle
  /\ map_bls \in MapBlStores
  /\ sb_trim_lb \in 0..MaxMapEpoch
  /\ meta_maps = {e \in 1..MaxMapEpoch : map_bls[e].form # "none"}
  /\ sb_maps = meta_maps
  /\ osdmaps_keys = {0}
  /\ map_bl_cache = {}
  /\ pg_map_epoch = [p \in SpgIds |-> 0]
  /\ maps_last = [op |-> "init"]
  /\ inc_msg = [op |-> "init"]
  /\ dispatch_last = [op |-> "init"]
  /\ AuxIdle
  /\ osdmap_epoch = 0
  /\ osdmaps = [e \in {0} |-> EmptyOsdMap.up]
  /\ osdmap_pool = EmptyOsdMap.pool

IncNext ==
  \E first, last_e \in 1..MaxMapEpoch :
    \E inline \in IF first < sb_trim_lb THEN BOOLEAN ELSE {TRUE} :
      \E key \in IF inline THEN {0} ELSE 1..MaxMapEpoch :
        build_incremental_map_msg(first, last_e, inline, key)

SpecInc == IncInit /\ [][IncNext]_vars

\* C37: whenever store_maps reaches its final pool-info step, added_maps
\* is not empty and its keys are exactly the epochs of [start, last] the
\* message carried in either form; for every message, one carrying none
\* of the epochs it claims included.
C37_AddedMapsNonEmpty ==
  (StoreDone /\ maps_last.res.outcome # "failed") =>
    /\ maps_last.res.added # {}
    /\ maps_last.res.added =
         {e \in maps_last.start..maps_last.m.last :
            e \in maps_last.m.maps \cup maps_last.m.incremental_maps}

(***************************************************************************)
(* Properties of build_incremental_map_msg                                 *)
(***************************************************************************)
\* build_incremental_map_msg has returned a message
Built == inc_msg.op = "build" /\ inc_msg.res.outcome = "ok"

\* the epochs a message carries as full maps, as incremental maps
FullEpochs == DOMAIN inc_msg.res.m.maps

IncEpochs == DOMAIN inc_msg.res.m.incremental_maps

\* the sum of f over S
RECURSIVE SumOver(_, _)
SumOver(f, S) ==
  IF S = {} THEN 0
  ELSE LET x == CHOOSE y \in S : TRUE IN f[x] + SumOver(f, S \ {x})

\* C25: a message built for first <= last is never empty: it carries at
\* least one epoch, even when that epoch's encoding alone is longer than
\* osd_map_message_max_bytes.
C25_NeverEmpty ==
  (Built /\ inc_msg.first <= inc_msg.last) => FullEpochs \cup IncEpochs # {}

\* C26: whatever first, last and the trim floor, the epochs of the message
\* built, full and incremental and the gap-fill map included, are at most
\* osd_map_message_max.
C26_AtMostMaxEpochs ==
  Built => Cardinality(FullEpochs) + Cardinality(IncEpochs) <= MsgMax

\* C27: the lengths of the entries of the message built, the gap-fill map
\* left out, add up to at most osd_map_message_max_bytes plus one entry
\* that went above it.
C27_BytesWithinBudget ==
  Built =>
    LET m == inc_msg.res.m
        full == FullEpochs \ {inc_msg.res.gap}
        total == SumOver(m.maps, full) + SumOver(m.incremental_maps, IncEpochs)
    IN \/ total <= MsgMaxBytes
       \/ \E e \in full : total - m.maps[e] <= MsgMaxBytes
       \/ \E e \in IncEpochs : total - m.incremental_maps[e] <= MsgMaxBytes

\* a message without gap-fill map that took some of the entries loaded and
\* was cut before an entry that did not fit the byte budget
C27_Witness ==
  /\ Built
  /\ inc_msg.res.gap = 0
  /\ FullEpochs \cup IncEpochs # {}
  /\ FullEpochs \cup IncEpochs # inc_msg.res.from..inc_msg.res.upper

\* C28: first being below the trim floor, the message built carries the
\* full map of the floor epoch, no epoch below the floor, and beyond the
\* floor only epochs of floor + 1 .. last, taken from floor + 1 on; the
\* floor being past last, the message is that full map alone.
C28_GapFill ==
  (Built /\ inc_msg.first < inc_msg.floor) =>
    LET rest == (FullEpochs \cup IncEpochs) \ {inc_msg.floor} IN
    /\ inc_msg.floor \in FullEpochs
    /\ inc_msg.floor \notin IncEpochs
    /\ inc_msg.res.m.maps[inc_msg.floor] = map_bls[inc_msg.floor].len
    /\ rest \subseteq (inc_msg.floor + 1)..inc_msg.last
    /\ \A e \in rest : \A x \in (inc_msg.floor + 1)..e : x \in rest
    /\ inc_msg.floor > inc_msg.last => rest = {}

\* C29: the epochs of the message built form a run without holes that
\* starts at first (at the floor, first being below it), and each of them
\* is carried once, as a full map or as an incremental map, not as both.
C29_ContiguousOnce ==
  Built =>
    LET all == FullEpochs \cup IncEpochs
        start == IF inc_msg.first < inc_msg.floor THEN inc_msg.floor
                 ELSE inc_msg.first IN
    /\ \A e \in all : \A x \in start..e : x \in all
    /\ FullEpochs \cap IncEpochs = {}

(***************************************************************************)
(* dispatch_context                                                        *)
(***************************************************************************)
\* the peers a PeeringCtx may hold messages for
DispatchPeers == {1, 2}

\* the most messages buffered for one peer
MaxMsgs == 2

\* ctx.message_map: peer -> number of messages buffered for it
MessageMaps ==
  UNION {[P -> 1..MaxMsgs] : P \in SUBSET DispatchPeers}

\* the messages of a message_map, each as <<peer, position>>
MessagesOf(mm) == {pm \in DispatchPeers \X (1..MaxMsgs) :
                      pm[1] \in DOMAIN mm /\ pm[2] <= mm[pm[1]]}

\* what the osdmap tells of a peer: is_down(peer), get_info(peer).up_from
PeerInfos == [down : BOOLEAN, up_from : 0..osdmap_epoch]

\* send_to_osd looking at is_down only
send_to_osd_down_only(info, from_epoch, ok) ==
  IF info.down THEN "skipped"
  ELSE IF ok THEN "sent" ELSE "failed"

\* send_to_osd(peer, m, from_epoch): nothing is sent to a peer that is down
\* or that came up after from_epoch; else the message goes to the
\* connection, ok telling whether that send succeeds
send_to_osd(info, from_epoch, ok) ==
  IF info.down THEN "skipped"
  ELSE IF info.up_from > from_epoch THEN "skipped"
  ELSE IF ok THEN "sent" ELSE "failed"

\* dispatch_context_messages: send_to_osd is started for every message of
\* every peer, message_map is cleared, and the future returned fails if
\* one of the sends did
dispatch_context_messages(mm, infos, fails) ==
  LET r == [pm \in MessagesOf(mm) |->
              send_to_osd(infos[pm[1]], osdmap_epoch, pm \notin fails)] IN
  [to_conn |-> {pm \in MessagesOf(mm) : r[pm] # "skipped"},
   ok |-> \A pm \in MessagesOf(mm) : r[pm] # "failed",
   message_map |-> <<>>]

\* dispatch_context_transaction: an empty transaction makes the store
\* flush the collection, after which the contexts collected from the
\* transaction are completed; else the transaction is claimed, which
\* leaves ctx.transaction empty, and handed to do_transaction
dispatch_context_transaction(ops, ctxs, store_ok) ==
  IF ops = 0
  THEN [flush |-> 1, do_transaction |-> 0,
        completed |-> IF store_ok THEN ctxs ELSE 0,
        ops_left |-> 0, ok |-> store_ok]
  ELSE [flush |-> 0, do_transaction |-> 1, completed |-> 0,
        ops_left |-> 0, ok |-> store_ok]

\* when_all_succeed resolving as soon as the transaction step did
DispatchContext_txn_only(col, mm, infos, fails, ops, ctxs, store_ok) ==
  LET msgs == dispatch_context_messages(mm, infos, fails)
      txn == IF col THEN dispatch_context_transaction(ops, ctxs, store_ok)
             ELSE [flush |-> 0, do_transaction |-> 0, completed |-> 0,
                   ops_left |-> ops, ok |-> TRUE]
  IN IF ~col /\ ops # 0
     THEN [outcome |-> "aborted", to_conn |-> {}, message_map |-> mm,
           flush |-> 0, do_transaction |-> 0, completed |-> 0,
           ops_left |-> ops]
     ELSE [outcome |-> IF txn.ok THEN "ok" ELSE "failed",
           to_conn |-> msgs.to_conn, message_map |-> msgs.message_map,
           flush |-> txn.flush, do_transaction |-> txn.do_transaction,
           completed |-> txn.completed, ops_left |-> txn.ops_left]

\* dispatch_context(col, pctx): a transaction that is not empty needs a
\* collection (ceph_assert); the messages and, a collection being given,
\* the transaction are dispatched, and when_all_succeed resolves when both
\* have, failing if one of them failed
DispatchContext(col, mm, infos, fails, ops, ctxs, store_ok) ==
  LET msgs == dispatch_context_messages(mm, infos, fails)
      txn == IF col THEN dispatch_context_transaction(ops, ctxs, store_ok)
             ELSE [flush |-> 0, do_transaction |-> 0, completed |-> 0,
                   ops_left |-> ops, ok |-> TRUE]
  IN IF ~col /\ ops # 0
     THEN [outcome |-> "aborted", to_conn |-> {}, message_map |-> mm,
           flush |-> 0, do_transaction |-> 0, completed |-> 0,
           ops_left |-> ops]
     ELSE [outcome |-> IF msgs.ok /\ txn.ok THEN "ok" ELSE "failed",
           to_conn |-> msgs.to_conn, message_map |-> msgs.message_map,
           flush |-> txn.flush, do_transaction |-> txn.do_transaction,
           completed |-> txn.completed, ops_left |-> txn.ops_left]

\* the call dispatch_context(col, pctx) on the PeeringCtx and in the
\* surroundings drawn at the start
dispatch_context ==
  /\ dispatch_last.op = "ctx"
  /\ dispatch_last' =
       [dispatch_last EXCEPT
          !.op = "dispatch_context",
          !.res = DispatchContext(dispatch_last.col,
                                  dispatch_last.message_map,
                                  dispatch_last.infos, dispatch_last.fails,
                                  dispatch_last.ops, dispatch_last.ctxs,
                                  dispatch_last.store_ok)]
  /\ UNCHANGED <<map_bls, inc_msg, osdmap_epoch, pgtemp_vars, pg_vars,
                 alive_vars, sb_vars, aux_vars>>

\* a PeeringCtx about to be dispatched: its messages and its transaction
\* (number of ops, number of contexts queued), the collection given or
\* not, and how the peers and the store will answer.  The sends that fail
\* are among those that reach a connection, and the store is only asked
\* when a collection is given
DispatchInit ==
  /\ PgTempIdle
  /\ PgTableInit
  /\ AliveIdle
  /\ MapsIdle
  /\ osdmap_epoch = 0
  /\ osdmaps = [e \in {0} |-> EmptyOsdMap.up]
  /\ osdmap_pool = EmptyOsdMap.pool
  /\ map_bls = [e \in 1..MaxMapEpoch |-> [form |-> "none", len |-> 1]]
  /\ inc_msg = [op |-> "init"]
  /\ AuxIdle
  /\ \E col \in BOOLEAN, mm \in MessageMaps, ops \in 0..1, ctxs \in 0..1 :
       \E infos \in [DOMAIN mm -> PeerInfos] :
         \E fails \in SUBSET {pm \in MessagesOf(mm) : ~infos[pm[1]].down} :
           \E store_ok \in IF col THEN BOOLEAN ELSE {TRUE} :
             dispatch_last =
               [op |-> "ctx", col |-> col, message_map |-> mm,
                infos |-> infos, fails |-> fails, ops |-> ops,
                ctxs |-> ctxs, store_ok |-> store_ok,
                res |-> [outcome |-> "pending"]]

DispatchNext == dispatch_context

SpecDispatch == DispatchInit /\ [][DispatchNext]_vars

(***************************************************************************)
(* Properties of dispatch_context                                          *)
(***************************************************************************)
\* dispatch_context has been called and its assertion held
Dispatched ==
  dispatch_last.op = "dispatch_context" /\ dispatch_last.res.outcome # "aborted"

\* C30 as stated: dispatch_context starts the sends of all buffered
\* messages and the transaction step together, and its future succeeds
\* exactly when every send and the transaction step succeeded; a
\* transaction that is not empty is handed to do_transaction once and left
\* empty, an empty one makes the store flush the collection and the queued
\* contexts are completed, no transaction being committed.
C30_EmptyTransactionFlushes ==
  Dispatched =>
    LET d == dispatch_last
        r == dispatch_last.res IN
    /\ (r.outcome = "ok") <=> (d.fails = {} /\ d.store_ok)
    /\ r.to_conn = {pm \in MessagesOf(d.message_map) :
                      ~d.infos[pm[1]].down}
    /\ d.ops # 0 =>
         r.do_transaction = 1 /\ r.flush = 0 /\ r.ops_left = 0
    /\ d.ops = 0 =>
         /\ r.do_transaction = 0 /\ r.flush = 1
         /\ d.store_ok => r.completed = d.ctxs

\* C30, a collection being given or not: dispatch_context starts the sends
\* of all buffered messages and, if a collection is given, the transaction
\* step, and its future succeeds exactly when every send and that step
\* succeeded.  With a collection, a transaction that is not empty is handed
\* to do_transaction once and left empty, and an empty one makes the store
\* flush the collection, after which the queued contexts are completed and
\* nothing is committed.  Without a collection the store is not called.
C30_DispatchAllOrFail ==
  Dispatched =>
    LET d == dispatch_last
        r == dispatch_last.res IN
    /\ (r.outcome = "ok") <=> (d.fails = {} /\ d.store_ok)
    /\ r.outcome \in {"ok", "failed"}
    /\ r.to_conn = {pm \in MessagesOf(d.message_map) :
                      ~d.infos[pm[1]].down}
    /\ r.message_map = <<>>
    /\ (d.col /\ d.ops # 0) =>
         r.do_transaction = 1 /\ r.flush = 0 /\ r.ops_left = 0
    /\ (d.col /\ d.ops = 0) =>
         /\ r.do_transaction = 0 /\ r.flush = 1
         /\ d.store_ok => r.completed = d.ctxs
    /\ ~d.col => r.do_transaction = 0 /\ r.flush = 0 /\ r.completed = 0

\* a dispatch whose transaction was committed while one of its sends
\* failed: the future failed
C30_Witness ==
  /\ Dispatched
  /\ dispatch_last.fails # {}
  /\ dispatch_last.col /\ dispatch_last.ops # 0 /\ dispatch_last.store_ok
  /\ dispatch_last.res.do_transaction = 1
  /\ dispatch_last.res.outcome = "failed"

(***************************************************************************)
(* send_to_osd                                                             *)
(***************************************************************************)
\* what a send_to_osd call does: the connect and send_with_throttling
\* calls it makes, and how its future resolves
SendToOsdEffects(info, from_epoch, ok) ==
  LET r == send_to_osd(info, from_epoch, ok) IN
  [connects |-> IF r = "skipped" THEN 0 ELSE 1,
   sends |-> IF r = "skipped" THEN 0 ELSE 1,
   resolved |-> IF r = "failed" THEN "failed" ELSE "ok"]

\* the call send_to_osd(peer, m, from_epoch) with the arguments and the
\* map drawn at the start
SendToOsd ==
  /\ send_last.op = "args"
  /\ send_last' =
       [send_last EXCEPT
          !.op = "send_to_osd",
          !.res = SendToOsdEffects(send_last.info, send_last.from_epoch,
                                   send_last.ok)]
  /\ UNCHANGED <<map_bls, inc_msg, dispatch_last, osdmap_epoch, pgtemp_vars,
                 pg_vars, alive_vars, sb_vars, cache_vars, ext_vars>>

\* a message about to be sent to a peer: what the current map tells of the
\* peer, the epoch the message is from, and whether the connection will
\* take it
SendInit ==
  /\ PgTempIdle
  /\ PgTableInit
  /\ AliveIdle
  /\ MapsIdle
  /\ osdmap_epoch = 0
  /\ osdmaps = [e \in {0} |-> EmptyOsdMap.up]
  /\ osdmap_pool = EmptyOsdMap.pool
  /\ map_bls = [e \in 1..MaxMapEpoch |-> [form |-> "none", len |-> 1]]
  /\ inc_msg = [op |-> "init"]
  /\ dispatch_last = [op |-> "init"]
  /\ inc_map_bl_cache = {}
  /\ meta_inc_maps = {}
  /\ ExtIdle
  /\ \E peer \in DispatchPeers, down \in BOOLEAN, ok \in BOOLEAN :
       \E up_from, from_epoch \in 0..MaxEpoch :
         send_last = [op |-> "args", peer |-> peer,
                      info |-> [down |-> down, up_from |-> up_from],
                      from_epoch |-> from_epoch, ok |-> ok,
                      res |-> [resolved |-> "pending"]]

SendNext == SendToOsd

SpecSend == SendInit /\ [][SendNext]_vars

(***************************************************************************)
(* Properties of send_to_osd                                               *)
(***************************************************************************)
\* send_to_osd has been called
SendDone == send_last.op = "send_to_osd"

\* C31: send_to_osd neither connects nor sends to a peer that the map
\* marks down or that came up after from_epoch, and its future then
\* resolves without error; to any other peer it connects and sends the
\* message once, and its future is that of the send.
C31_UnreachablePeerSkipped ==
  SendDone =>
    LET d == send_last
        unreachable == d.info.down \/ d.info.up_from > d.from_epoch IN
    /\ unreachable =>
         /\ d.res.connects = 0 /\ d.res.sends = 0
         /\ d.res.resolved = "ok"
    /\ ~unreachable =>
         /\ d.res.connects = 1 /\ d.res.sends = 1
         /\ (d.res.resolved = "ok") <=> d.ok

\* a send to a peer that is up but came up after from_epoch: skipped
C31_Witness ==
  /\ SendDone
  /\ ~send_last.info.down
  /\ send_last.info.up_from > send_last.from_epoch
  /\ send_last.res.sends = 0
  /\ send_last.res.resolved = "ok"

(***************************************************************************)
(* The caches of get_local_map, load_map_bl and load_inc_map_bl            *)
(***************************************************************************)
\* the epochs looked up
CacheEpochs == 0..MaxEpoch

\* load_inc_map_bl(e): the buffer comes from inc_map_bl_cache, else from
\* meta_coll, which fails for an epoch it does not store; a loaded buffer
\* is cached
load_inc_map_bl(ibl, e) ==
  IF e \in ibl THEN [ok |-> TRUE, ibl |-> ibl]
  ELSE IF e \in meta_inc_maps THEN [ok |-> TRUE, ibl |-> ibl \cup {e}]
  ELSE [ok |-> FALSE, ibl |-> ibl]

\* the meta_coll->load_map calls of load_map_bl(e)
load_map_bl_reads(bl, e) == IF e \in bl THEN 0 ELSE 1

\* the meta_coll->load_inc_map calls of load_inc_map_bl(e)
load_inc_map_bl_reads(ibl, e) == IF e \in ibl THEN 0 ELSE 1

\* the meta_coll->load_map calls of get_local_map(e): none when osdmaps
\* holds e, and none for epoch 0
get_local_map_reads(keys, bl, e) ==
  IF e \in keys THEN 0
  ELSE IF e = 0 THEN 0
  ELSE load_map_bl_reads(bl, e)

\* a call get_local_map(e)
CacheGetLocalMap(e) ==
  LET r == get_local_map(osdmaps_keys, map_bl_cache, e) IN
  /\ osdmaps_keys' = r.keys
  /\ map_bl_cache' = r.bl
  /\ maps_last' = [op |-> "get_local_map", e |-> e, ok |-> r.ok,
                   found |-> r.found,
                   reads |-> get_local_map_reads(osdmaps_keys, map_bl_cache, e)]
  /\ UNCHANGED <<sb_maps, sb_trim_lb, meta_maps, pg_map_epoch, osdmap_epoch,
                 pgtemp_vars, pg_vars, alive_vars, map_bls, inc_msg,
                 dispatch_last, send_vars, cache_vars, ext_vars>>

\* a call load_map_bl(e)
CacheLoadMapBl(e) ==
  LET r == load_map_bl(map_bl_cache, e) IN
  /\ map_bl_cache' = r.bl
  /\ maps_last' = [op |-> "load_map_bl", e |-> e, ok |-> r.ok,
                   found |-> e \in map_bl_cache,
                   reads |-> load_map_bl_reads(map_bl_cache, e)]
  /\ UNCHANGED <<sb_maps, sb_trim_lb, osdmaps_keys, meta_maps, pg_map_epoch,
                 osdmap_epoch, pgtemp_vars, pg_vars, alive_vars, map_bls,
                 inc_msg, dispatch_last, send_vars, cache_vars, ext_vars>>

\* a call load_inc_map_bl(e)
CacheLoadIncMapBl(e) ==
  LET r == load_inc_map_bl(inc_map_bl_cache, e) IN
  /\ inc_map_bl_cache' = r.ibl
  /\ maps_last' = [op |-> "load_inc_map_bl", e |-> e, ok |-> r.ok,
                   found |-> e \in inc_map_bl_cache,
                   reads |-> load_inc_map_bl_reads(inc_map_bl_cache, e)]
  /\ UNCHANGED <<sb_maps, sb_trim_lb, osdmaps_keys, map_bl_cache, meta_maps,
                 pg_map_epoch, osdmap_epoch, pgtemp_vars, pg_vars,
                 alive_vars, map_bls, inc_msg, dispatch_last, send_vars,
                 meta_inc_maps, ext_vars>>

\* an osd with full and incremental maps stored and nothing cached but
\* the epoch 0 map of the constructor
CacheInit ==
  /\ PgTempIdle
  /\ PgTableInit
  /\ AliveIdle
  /\ osdmap_epoch = 0
  /\ osdmaps = [e \in {0} |-> EmptyOsdMap.up]
  /\ osdmap_pool = EmptyOsdMap.pool
  /\ meta_maps \in SUBSET (1..MaxEpoch)
  /\ meta_inc_maps \in SUBSET (1..MaxEpoch)
  /\ sb_maps = meta_maps
  /\ sb_trim_lb = 0
  /\ osdmaps_keys = {0}
  /\ map_bl_cache = {}
  /\ inc_map_bl_cache = {}
  /\ pg_map_epoch = [p \in SpgIds |-> 0]
  /\ maps_last = [op |-> "init"]
  /\ map_bls = [e \in 1..MaxMapEpoch |-> [form |-> "none", len |-> 1]]
  /\ inc_msg = [op |-> "init"]
  /\ dispatch_last = [op |-> "init"]
  /\ send_last = [op |-> "init"]
  /\ ExtIdle

CacheNext ==
  \/ \E e \in CacheEpochs : CacheGetLocalMap(e)
  \/ \E e \in CacheEpochs \ {0} : CacheLoadMapBl(e)
  \/ \E e \in CacheEpochs \ {0} : CacheLoadIncMapBl(e)
  \/ EvictMap
  \/ EvictMapBl

SpecCache == CacheInit /\ [][CacheNext]_vars

(***************************************************************************)
(* Properties of the caches                                                *)
(***************************************************************************)
\* what a lookup step does to the cache it goes through (cache before and
\* after, disk the epochs stored): a hit reads nothing and changes nothing,
\* a miss reads once and leaves the epoch resident if the load succeeded
\* and the cache as it was if not
LookupStep(cache, cache_after, disk, e, rec) ==
  /\ rec.found = (e \in cache)
  /\ e \in cache =>
       rec.ok /\ rec.reads = 0 /\ cache_after = cache
  /\ e \notin cache =>
       /\ rec.reads <= 1
       /\ rec.ok = (e \in disk)
       /\ rec.ok => cache_after = cache \cup {e}
       /\ ~rec.ok => cache_after = cache

\* C32: get_local_map(e) returns the map osdmaps holds without reading
\* from the store; on a miss it loads the bytes of e, decodes them and
\* inserts the map, so that e is resident right after the call.
\* load_map_bl and load_inc_map_bl do the same with map_bl_cache and
\* inc_map_bl_cache, and each of the three caches is only changed by a
\* lookup that goes through it.
C32_CacheLookup ==
  [][ /\ maps_last'.op = "get_local_map" =>
           /\ LookupStep(osdmaps_keys, osdmaps_keys',
                         meta_maps \cup map_bl_cache \cup {0},
                         maps_last'.e, maps_last')
           /\ maps_last'.found => map_bl_cache' = map_bl_cache
           /\ (maps_last'.e \in map_bl_cache \cup {0}) => maps_last'.reads = 0
           /\ inc_map_bl_cache' = inc_map_bl_cache
      /\ maps_last'.op = "load_map_bl" =>
           /\ LookupStep(map_bl_cache, map_bl_cache', meta_maps,
                         maps_last'.e, maps_last')
           /\ (maps_last'.found = FALSE) => maps_last'.reads = 1
           /\ osdmaps_keys' = osdmaps_keys
           /\ inc_map_bl_cache' = inc_map_bl_cache
      /\ maps_last'.op = "load_inc_map_bl" =>
           /\ LookupStep(inc_map_bl_cache, inc_map_bl_cache', meta_inc_maps,
                         maps_last'.e, maps_last')
           /\ (maps_last'.found = FALSE) => maps_last'.reads = 1
           /\ osdmaps_keys' = osdmaps_keys
           /\ map_bl_cache' = map_bl_cache
    ]_vars

\* get_local_map missed, read the bytes from the store, and left the map
\* resident: the same call would now be a hit
C32_Witness ==
  /\ maps_last.op = "get_local_map"
  /\ maps_last.found = FALSE /\ maps_last.ok /\ maps_last.reads = 1
  /\ get_local_map(osdmaps_keys, map_bl_cache, maps_last.e).found

(***************************************************************************)
(* PerShardState::broadcast_map_to_pgs                                     *)
(***************************************************************************)
\* the PGs a shard may hold from the start (load_pg), next to the PG of
\* SpgIds, which is created on request
LoadedPgIds == {"1.1s0", "1.2s0"}

\* the order of spg_t, in which pg_map.get_pgs() is iterated
PgOrder == <<"1.0s0", "1.1s0", "1.2s0">>

\* the keys of a table in iteration order
KeysInOrder(table) == SelectSeq(PgOrder, LAMBDA p : p \in DOMAIN table)

\* an operation started for the first PG of the table only
BroadcastOps_first_only(table, epoch, call) ==
  LET keys == KeysInOrder(table) IN
  [i \in 1..(IF keys = <<>> THEN 0 ELSE 1) |->
     [pgid |-> keys[i], pg |-> table[keys[i]], to |-> epoch,
      call |-> call, state |-> "started"]]

\* parallel_for_each over pg_map.get_pgs(): one
\* start_operation<PGAdvanceMap>(pg.second, shard_services, epoch,
\* PeeringCtx{}, false) for each entry
BroadcastOps(table, epoch, call) ==
  LET keys == KeysInOrder(table) IN
  [i \in 1..Len(keys) |->
     [pgid |-> keys[i], pg |-> table[keys[i]], to |-> epoch,
      call |-> call, state |-> "started"]]

\* the operations a broadcast_map_to_pgs call started
OpsOf(ops, call) == {i \in 1..Len(ops) : ops[i].call = call}

\* broadcast_map_to_pgs(shard_services, epoch), called with the epoch of
\* the map that has just become current: the future it returns is that of
\* parallel_for_each, ready at once when the table is empty
broadcast_map_to_pgs(epoch) ==
  /\ epoch = osdmap_epoch
  /\ bcasts # <<>> => bcasts[Len(bcasts)].epoch < epoch
  /\ LET call == Len(bcasts) + 1
         ops == BroadcastOps(pgs, epoch, call)
     IN /\ adv_ops' = adv_ops \o ops
        /\ bcasts' = Append(bcasts,
             [epoch |-> epoch, table |-> pgs,
              creating |-> DOMAIN pgs_creating,
              fut |-> IF ops = <<>> THEN "ready" ELSE "pending"])
  /\ UNCHANGED <<osdmap_epoch, pg_vars, pgtemp_vars, alive_vars, sb_vars,
                 map_bls, inc_msg, dispatch_last, send_vars, cache_vars,
                 scrub>>

\* a PGAdvanceMap operation of a broadcast completes, those on one PG in
\* the order they were started: the PG is at the epoch the operation was
\* given.  With the last operation of a call the future of its
\* parallel_for_each becomes ready
AdvanceDone(i) ==
  /\ i \in 1..Len(adv_ops)
  /\ adv_ops[i].state = "started"
  /\ \A j \in 1..(i - 1) :
       adv_ops[j].pg = adv_ops[i].pg => adv_ops[j].state = "done"
  /\ LET ops == [adv_ops EXCEPT ![i].state = "done"]
         call == adv_ops[i].call
     IN /\ adv_ops' = ops
        /\ bcasts' = IF \A j \in OpsOf(ops, call) : ops[j].state = "done"
                     THEN [bcasts EXCEPT ![call].fut = "ready"]
                     ELSE bcasts
  /\ pg_objs' = [pg_objs EXCEPT ![adv_ops[i].pg].epoch = adv_ops[i].to]
  /\ UNCHANGED <<map_vars, pgs, pgs_creating, calls, store_colls, canceled,
                 pgtemp_vars, alive_vars, sb_vars, map_bls, inc_msg,
                 dispatch_last, send_vars, cache_vars, scrub>>

\* a shard holding some loaded PGs, each at the epoch 0 map, and no PG of
\* SpgIds
BcastInit ==
  /\ PgTempIdle
  /\ AliveIdle
  /\ MapsIdle
  /\ MsgIdle
  /\ osdmap_epoch = 0
  /\ osdmaps = [e \in {0} |-> EmptyOsdMap.up]
  /\ osdmap_pool = EmptyOsdMap.pool
  /\ \E loaded \in SUBSET LoadedPgIds :
       LET keys == SelectSeq(PgOrder, LAMBDA p : p \in loaded) IN
       /\ pg_objs = [i \in 1..Len(keys) |->
                       [pgid |-> keys[i], epoch |-> 0, ondisk |-> TRUE,
                        inited |-> TRUE]]
       /\ pgs = [p \in loaded |->
                   CHOOSE i \in 1..Len(keys) : keys[i] = p]
  /\ pgs_creating = EmptyMap
  /\ calls = [c \in Calls |-> IdleCall]
  /\ store_colls = [p \in SpgIds |-> 0]
  /\ canceled = [p \in SpgIds |-> 0]

\* the requests of one creation: its driver and a waiter
BcastCalls == {1, 2}

BcastNext ==
  \/ \E c \in BcastCalls, pgid \in SpgIds :
       \E info \in [epoch : 0..osdmap_epoch, by_mon : BOOLEAN] :
         get_or_create_pg(c, pgid, info)
  \/ \E c \in Calls : HandleGetMapDone(c)
  \/ \E c \in Calls : HandleMakePgDone(c)
  \/ \E c \in Calls : HandleInitDone(c)
  \/ \E c \in Calls : HandleAdvanceDone(c)
  \/ \E m \in OsdMapValues : NewOsdMap(m)
  \/ \E epoch \in 1..MaxEpoch : broadcast_map_to_pgs(epoch)
  \/ \E i \in 1..(3 * MaxEpoch) : AdvanceDone(i)

SpecBcast == BcastInit /\ [][BcastNext]_vars

\* every operation that was started completes, a map that became current
\* is broadcast, and each step of a creation under way is taken; nothing
\* obliges the cluster to publish another map
BcastFair ==
  /\ WF_vars(\E i \in 1..(3 * MaxEpoch) : AdvanceDone(i))
  /\ WF_vars(\E epoch \in 1..MaxEpoch : broadcast_map_to_pgs(epoch))
  /\ WF_vars(\E c \in Calls : HandleGetMapDone(c))
  /\ WF_vars(\E c \in Calls : HandleMakePgDone(c))
  /\ WF_vars(\E c \in Calls : HandleInitDone(c))
  /\ WF_vars(\E c \in Calls : HandleAdvanceDone(c))

SpecBcastLive == BcastInit /\ [][BcastNext]_vars /\ BcastFair

(***************************************************************************)
(* Properties of broadcast_map_to_pgs                                      *)
(***************************************************************************)
\* C34: broadcast_map_to_pgs(epoch) starts exactly one advance-map
\* operation, targeting epoch, for each PG in the placement table at the
\* time of the call, none for an identity that is absent or being created,
\* and its future is ready only after all of them have completed.
C34_BroadcastToEveryPresentPg ==
  \A k \in 1..Len(bcasts) :
    LET b == bcasts[k]
        ops == OpsOf(adv_ops, k)
    IN /\ \A p \in DOMAIN b.table :
            Cardinality({i \in ops : adv_ops[i].pgid = p}) = 1
       /\ \A i \in ops :
            /\ adv_ops[i].pgid \in DOMAIN b.table
            /\ adv_ops[i].pgid \notin b.creating
            /\ adv_ops[i].pg = b.table[adv_ops[i].pgid]
            /\ adv_ops[i].to = b.epoch
       /\ b.fut = "ready" <=> \A i \in ops : adv_ops[i].state = "done"

\* C34 witness: a broadcast that found two PGs present and one being
\* created, and has completed
C34_Witness ==
  \E k \in 1..Len(bcasts) :
    /\ Cardinality(DOMAIN bcasts[k].table) >= 2
    /\ bcasts[k].creating # {}
    /\ bcasts[k].fut = "ready"
    /\ Cardinality(OpsOf(adv_ops, k)) = Cardinality(DOMAIN bcasts[k].table)

\* the broadcast of epoch e came while the PG that call c creates was
\* between the reading of the current epoch and its registration
MissedBroadcast(c, e) ==
  /\ calls[c].hpc = "advance"
  /\ calls[c].adv_to < e
  /\ \E k \in 1..Len(bcasts) :
       /\ bcasts[k].epoch = e
       /\ calls[c].pgid \notin DOMAIN bcasts[k].table

\* C36: a PG whose creation read the current epoch for its initial
\* advance before a newer epoch was broadcast, and which was registered
\* in the placement table after that broadcast, eventually is at the
\* newer epoch.
C36_CreatedPgNotLeftBehind ==
  \A c \in Calls : \A e \in 1..MaxEpoch :
    MissedBroadcast(c, e) ~>
      (calls[c].pg # NullPG /\ pg_objs[calls[c].pg].epoch >= e)

(***************************************************************************)
(* scrub_machine.cc: the ScanRange state                                   *)
(***************************************************************************)
\* the shards a scrub may have to scan
ScrubIds == {"osd0", "osd1", "osd2"}

\* hobject_t::is_max
is_max(h) == h = HobjMax

\* Scrubbing::advance_current
advance_current(s, next) == [s EXCEPT !.current = next]

\* the members of a ScanRange state that has just been constructed
FreshScanRange(s) ==
  [s EXCEPT !.state = "ScanRange", !.waiting_on = 0, !.maps = {},
            !.scans = [id \in ScrubIds |-> 0]]

\* foreach_id_to_scrub with the callback of the constructor: scan_range
\* is called for the id and waiting_on is incremented
RECURSIVE IssueScans(_, _)
IssueScans(s, todo) ==
  IF todo = {} THEN s
  ELSE LET id == CHOOSE x \in todo : TRUE IN
       IssueScans([s EXCEPT !.scans[id] = @ + 1,
                            !.scan_args = [version |-> s.version,
                                           deep |-> s.deep,
                                           start |-> s.range.start,
                                           end |-> s.range.end],
                            !.waiting_on = @ + 1],
                  todo \ {id})

\* the state a failed ceph_assert leaves: the process aborts
Aborted(s) == [s EXCEPT !.state = "aborted"]

\* react with the chunk result emitted at every completion
ScanRangeReact_emit_each(s, id) ==
  LET s1 == [s EXCEPT !.maps = @ \cup {id}] IN
  IF id \in s.maps THEN Aborted(s)
  ELSE IF s.waiting_on = 0 THEN Aborted(s1)
  ELSE LET s2 == [s1 EXCEPT !.waiting_on = @ - 1,
                            !.stats = @ + 1,
                            !.chunk_results =
                               Append(@, [range |-> s.range, maps |-> s1.maps])]
       IN IF s2.waiting_on > 0 THEN s2
          ELSE IF is_max(s.range.end)
          THEN [s2 EXCEPT !.scrub_results =
                             Append(@, [deep |-> s.deep, stats |-> s2.stats]),
                          !.state = "PrimaryActive"]
          ELSE [advance_current(s2, s.range.end) EXCEPT !.state = "ChunkState"]

\* ScanRange::react(scan_range_complete_t) for a completion from id: the
\* machine afterwards
ScanRangeReact(s, id) ==
  LET s1 == [s EXCEPT !.maps = @ \cup {id}] IN
  IF id \in s.maps THEN Aborted(s)
  ELSE IF s.waiting_on = 0 THEN Aborted(s1)
  ELSE LET s2 == [s1 EXCEPT !.waiting_on = @ - 1] IN
       IF s2.waiting_on > 0 THEN s2
       ELSE LET s3 == [s2 EXCEPT !.stats = @ + 1,
                                 !.chunk_results =
                                    Append(@, [range |-> s.range,
                                               maps |-> s2.maps])]
            IN IF is_max(s.range.end)
               THEN [s3 EXCEPT !.scrub_results =
                                  Append(@, [deep |-> s.deep,
                                             stats |-> s3.stats]),
                               !.state = "PrimaryActive"]
               ELSE [advance_current(s3, s.range.end) EXCEPT
                       !.state = "ChunkState"]

scrub_others ==
  <<osdmap_epoch, pgtemp_vars, pg_vars, alive_vars, sb_vars, map_bls, inc_msg,
    dispatch_last, send_vars, cache_vars, adv_ops, bcasts>>

\* ChunkState has its range [current, end) and the machine enters
\* ScanRange, whose constructor issues the scans
ScanRange_ScanRange(end) ==
  /\ scrub.state = "ChunkState"
  /\ end > scrub.current
  /\ LET s == [scrub EXCEPT !.range = [start |-> scrub.current, end |-> end],
                            !.chunks = @ + 1,
                            !.ev = [id |-> "", had |-> FALSE, waiting |-> 0,
                                    results |-> 0]]
     IN scrub' = IssueScans(FreshScanRange(s), s.ids)
  /\ UNCHANGED scrub_others

\* a scan_range_complete_t event from id reaches the ScanRange state
ScanRange_react(id) ==
  /\ scrub.state = "ScanRange"
  /\ scrub' = [ScanRangeReact(scrub, id) EXCEPT
                 !.ev = [id |-> id, had |-> id \in scrub.maps,
                         waiting |-> scrub.waiting_on,
                         results |-> Len(scrub.chunk_results)]]
  /\ UNCHANGED scrub_others

\* a primary scrub about to take its first chunk: the ids to scrub,
\* whether it is deep, the cursor at the start
ScrubInit ==
  /\ PgTempIdle
  /\ PgTableInit
  /\ AliveIdle
  /\ MapsIdle
  /\ osdmap_epoch = 0
  /\ osdmaps = [e \in {0} |-> EmptyOsdMap.up]
  /\ osdmap_pool = EmptyOsdMap.pool
  /\ map_bls = [e \in 1..MaxMapEpoch |-> [form |-> "none", len |-> 1]]
  /\ inc_msg = [op |-> "init"]
  /\ dispatch_last = [op |-> "init"]
  /\ send_last = [op |-> "init"]
  /\ inc_map_bl_cache = {}
  /\ meta_inc_maps = {}
  /\ adv_ops = <<>>
  /\ bcasts = <<>>
  /\ \E ids \in SUBSET ScrubIds, deep \in BOOLEAN :
       scrub = [state |-> "ChunkState", ids |-> ids, deep |-> deep,
                version |-> 1, current |-> 0,
                range |-> [start |-> 0, end |-> 0], chunks |-> 0,
                waiting_on |-> 0, maps |-> {},
                scans |-> [id \in ScrubIds |-> 0],
                scan_args |-> [version |-> 0, deep |-> FALSE, start |-> 0,
                               end |-> 0],
                stats |-> 0, chunk_results |-> <<>>, scrub_results |-> <<>>,
                ev |-> [id |-> "", had |-> FALSE, waiting |-> 0,
                        results |-> 0]]

\* a completion comes from a shard that was sent a scan, possibly a
\* second time, or from any shard when no scan is outstanding
ScrubNext ==
  \/ \E end \in 1..HobjMax : ScanRange_ScanRange(end)
  \/ \E id \in ScrubIds :
       /\ id \in scrub.ids \/ scrub.waiting_on = 0
       /\ ScanRange_react(id)

SpecScrub == ScrubInit /\ [][ScrubNext]_vars

(***************************************************************************)
(* Properties of the ScanRange state                                       *)
(***************************************************************************)
\* the chunk the machine is at, or has just left, was left by react
ChunkLeft == scrub.state \in {"ChunkState", "PrimaryActive"} /\ scrub.chunks > 0

====
